---- MODULE Spec2Model ----
(***************************************************************************)
(* Region data-loading and layer-composition pipeline of the vector-risk   *)
(* dashboard: the MapManager singleton (src/js/mapManager.js), the region  *)
(* loaders and the raster/municipality aggregation of src/js/app.js.       *)
(*                                                                         *)
(* JavaScript runs one handler at a time; a handler is suspended only at   *)
(* an await.  Every action below is one run-to-suspension segment of a     *)
(* handler: the synchronous start of an async function up to its first     *)
(* pending await, or the continuation that runs when an awaited promise    *)
(* settles, up to the next pending await or the function's end.            *)
(***************************************************************************)
EXTENDS Integers, Sequences, FiniteSets, TLC

VARIABLES
    mapManager,   \* the MapManager singleton: map, mbMap, layers, currentRegion
    leafletMaps,  \* live Leaflet map instances: id -> [view, layers]
    mapboxMaps,   \* live Mapbox GL map instances: id -> [center, loaded, ...]
    mapStats,     \* content of the #map-stats panel
    cache,        \* DataLoader.cache: URL -> the value parsed from it
    env,          \* which optional libraries the page has loaded
    observationCall, \* data of the latest addObservationLayer call of a caller
    rangeListener,\* region whose refreshForRange listens on the date pickers
    calls,        \* suspended async invocations, in the order they started
    nStarted,     \* number of user-level operations started so far
    last,         \* the handler segment that ran last (what it was, what it did)
    grids,        \* averageGeorasters: the list of georasters passed in
    averaged,     \* averageGeorasters: the value returned for `grids`
    timezone,     \* the browser's time zone: UTC offsets and the clock change
    evaluated,    \* latest call of a helper function: its name, argument, value
    visualization \* the Visualization singleton, its Chart instances and calls

mapVars == <<mapManager, leafletMaps, mapboxMaps, mapStats, cache, env,
             observationCall, rangeListener, calls, nStarted, last>>
avgVars == <<grids, averaged>>
fnVars == <<timezone, evaluated, visualization>>
vars == <<mapManager, leafletMaps, mapboxMaps, mapStats, cache, env,
          observationCall, rangeListener, calls, nStarted, last, grids, averaged,
          timezone, evaluated, visualization>>

(***************************************************************************)
(* Bounds of the model.                                                    *)
(***************************************************************************)
MaxCalls == 2        \* user-level operations started in one interleaved behaviour
MaxRuns == 2         \* loader runs in one behaviour of the sequential range runs
MaxDays == 2         \* days in a date range of the sequential range runs
MaxGrids == 3        \* georasters in one averageGeorasters call
MaxDeferred == 1     \* overlay requests a caller leaves waiting for one 'load'
DaySpan == 2         \* days after a clock change a date helper is given
MaxPoints == 2       \* observation points in one downloaded collection
MaxValue == 5        \* largest value of a field of a time-series record
MaxSelections == 2   \* date changes after a region was opened
MaxLiveSelections == 1   \* date changes in the runs under fairness
MaxChartCalls == 3   \* createRiskChart and createBarChart calls in one behaviour

(***************************************************************************)
(* Values.                                                                 *)
(***************************************************************************)
NoId == 0                              \* a null map handle
NoLayer == [kind |-> "null"]           \* a null entry of mapManager.layers

\* Payload values: a record with kind "data" says where the payload came from.
NoData == [kind |-> "data", src |-> "none", of |-> ""]
GeoJSONOf(region) == [kind |-> "data", src |-> "geojson", of |-> region]
SampleGeoJSON == [kind |-> "data", src |-> "sample", of |-> ""]
GeoTIFFOf(region) == [kind |-> "data", src |-> "geotiff", of |-> region]
ObservationsOf(tag) == [kind |-> "data", src |-> "observations", of |-> tag]

RECURSIVE SeqSum(_)
SeqSum(s) == IF s = <<>> THEN 0 ELSE Head(s) + SeqSum(Tail(s))

RECURSIVE GCD(_, _)
GCD(a, b) == IF b = 0 THEN a ELSE GCD(b, a % b)

Abs(n) == IF n < 0 THEN -n ELSE n

\* The quotient sum / count of two integers, count > 0, as a reduced fraction.
Quot(sum, count) ==
    LET g == GCD(Abs(sum), count)
    IN  [num |-> sum \div g, den |-> count \div g]

FreshId(used) == CHOOSE i \in 1..(Cardinality(used) + 1) : i \notin used

Without(f, k) == [i \in DOMAIN f \ {k} |-> f[i]]

(***************************************************************************)
(* averageGeorasters (src/js/app.js 783-841).                              *)
(*                                                                         *)
(* A georaster is [width, height, noDataValue, values], values indexed     *)
(* [band][row][col].  Pixel values are integers; NullPx stands for a null  *)
(* or undefined pixel and Undefined for a noDataValue that is undefined.   *)
(* An averaged pixel sum / count is kept as the reduced fraction           *)
(* [num, den]; a number n written to the output is n / 1.                  *)
(***************************************************************************)
NullPx == -100
Undefined == -200
NullRaster == [isNull |-> TRUE]

Num(n) == [num |-> n, den |-> 1]

\* The georasters the runs are drawn from: a shape <<bands, height, width>>
\* and a pattern <<a, c>> that fills the pixels alternately.
Shapes == {<<1, 1, 2>>, <<2, 1, 2>>, <<1, 2, 2>>, <<1, 1, 1>>}
Patterns == {<<0, 1>>, <<1, 9>>, <<9, NullPx>>, <<2, 0>>}
Sentinels == {Undefined, 0, 9}

MkGrid(shape, pat, nd) ==
    [width |-> shape[3], height |-> shape[2], noDataValue |-> nd,
     values |-> [b \in 1..shape[1] |->
                   [y \in 1..shape[2] |->
                      [x \in 1..shape[3] |->
                         IF (b + y + x) % 2 = 1 THEN pat[1] ELSE pat[2]]]]]

GridSet(nd) == {MkGrid(sh, pat, nd) : sh \in Shapes, pat \in Patterns}

\* app.js 803-805: the forEach callback returns early for such a raster.
Skipped(raster, bandCount, height, width) ==
    \/ Len(raster.values) < bandCount
    \/ Len(raster.values[1]) # height
    \/ Len(raster.values[1][1]) # width

\* app.js 815-816: the pixel is left out of the sum.
LeftOut(val, noData) ==
    \/ val = NullPx
    \/ (noData # Undefined /\ val = noData)

AddRasterKeepsLast(acc, raster, bandCount, height, width, noData) ==
    IF Skipped(raster, bandCount, height, width) THEN acc
    ELSE [sums |-> [b \in 1..bandCount |-> [y \in 1..height |-> [x \in 1..width |->
                      IF LeftOut(raster.values[b][y][x], noData)
                      THEN acc.sums[b][y][x]
                      ELSE raster.values[b][y][x]]]],
          counts |-> [b \in 1..bandCount |-> [y \in 1..height |-> [x \in 1..width |->
                      IF LeftOut(raster.values[b][y][x], noData)
                      THEN acc.counts[b][y][x]
                      ELSE acc.counts[b][y][x] + 1]]]]

\* app.js 807-821: one raster added to sums and counts.
AddRaster(acc, raster, bandCount, height, width, noData) ==
    IF Skipped(raster, bandCount, height, width) THEN acc
    ELSE [sums |-> [b \in 1..bandCount |-> [y \in 1..height |-> [x \in 1..width |->
                      IF LeftOut(raster.values[b][y][x], noData)
                      THEN acc.sums[b][y][x]
                      ELSE acc.sums[b][y][x] + raster.values[b][y][x]]]],
          counts |-> [b \in 1..bandCount |-> [y \in 1..height |-> [x \in 1..width |->
                      IF LeftOut(raster.values[b][y][x], noData)
                      THEN acc.counts[b][y][x]
                      ELSE acc.counts[b][y][x] + 1]]]]

\* app.js 802-822: georasters.forEach.
RECURSIVE Accumulate(_, _, _, _, _, _)
Accumulate(acc, rasters, bandCount, height, width, noData) ==
    IF rasters = <<>> THEN acc
    ELSE Accumulate(AddRaster(acc, Head(rasters), bandCount, height, width, noData),
                    Tail(rasters), bandCount, height, width, noData)

\* A pixel without contributor that reads as zero.
AveragedPixelZero(sum, c, noData) ==
    IF c > 0 THEN Quot(sum, c) ELSE Num(0)

\* app.js 829-834: the averaged pixel.
AveragedPixel(sum, c, noData) ==
    IF c > 0 THEN Quot(sum, c)
    ELSE IF noData # Undefined THEN Num(noData) ELSE Num(NullPx)

averageGeorasters(georasters) ==
    IF georasters = <<>> THEN NullRaster
    ELSE
      LET base == georasters[1] IN
      IF base.values = <<>> THEN NullRaster
      ELSE IF base.values[1] = <<>> THEN NullRaster
      ELSE
        LET firstBand == base.values[1]
            bandCount == Len(base.values)
            height == IF base.height # 0 THEN base.height ELSE Len(firstBand)
            width == IF base.width # 0 THEN base.width ELSE Len(firstBand[1])
            noData == base.noDataValue
            zero == [b \in 1..bandCount |-> [y \in 1..height |-> [x \in 1..width |-> 0]]]
            acc == Accumulate([sums |-> zero, counts |-> zero], georasters,
                              bandCount, height, width, noData)
        IN  IF height = 0 \/ width = 0 THEN NullRaster
            ELSE [width |-> base.width, height |-> base.height,
                  noDataValue |-> base.noDataValue,
                  values |-> [b \in 1..bandCount |-> [y \in 1..height |->
                               [x \in 1..width |->
                                  AveragedPixel(acc.sums[b][y][x],
                                                acc.counts[b][y][x], noData)]]]]

\* pixelValuesToColorFn of the Barcelona range loader (app.js 739-751), on a
\* pixel of the averaged raster: null for a negative or missing value, a
\* colour of the risk scale otherwise.
bcnPixelColor(pixelValue) ==
    IF pixelValue = Num(NullPx) \/ pixelValue.num < 0 THEN "null" ELSE "colour"

\* pixelValuesToColorFn of the Spain 1km grid loader (part_005 1306-1324), on
\* a pixel of the decoded raster.
gridPixelColor(pixelValue, noDataValue) ==
    IF \/ pixelValue = NullPx
       \/ pixelValue <= 0
       \/ (noDataValue # Undefined /\ pixelValue = noDataValue)
    THEN "null" ELSE "colour"

\* config.maxVRI of Spain and of Barcelona, in hundredths.
SpainMaxVRI == 30
BcnMaxVRI == 50

\* Math.min(value, maxVRI) / maxVRI on a value num / den (app.js 594, 748).
scaledValue(value, maxVRI) ==
    IF value.num <= maxVRI * value.den THEN Quot(value.num, value.den * maxVRI)
    ELSE Num(1)

\* app.js 589-597: the scalars of the match expression, one for each row
\* whose value is neither null nor undefined.
matchExpression(aggregatedArray) ==
    LET HasValue(row) == row.ma_prob_mean # Num(NullPx)
        rows == SelectSeq(aggregatedArray, HasValue)
    IN  [k \in DOMAIN rows |->
            [NATCODE |-> rows[k].NATCODE,
             scaled |-> scaledValue(rows[k].ma_prob_mean, SpainMaxVRI)]]

\* app.js 739-751: the scalar of a pixel that is given a colour.
pixelScaled(pixelValue) ==
    IF bcnPixelColor(pixelValue) = "null" THEN <<>>
    ELSE <<[scaled |-> scaledValue(pixelValue, BcnMaxVRI)]>>

\* A run of averageGeorasters: the caller pushes one more georaster of the
\* data source (app.js 719) and averages the list (app.js 726).
AvgInit ==
    /\ grids = <<>>
    /\ averaged = NullRaster

PushRaster ==
    /\ Len(grids) < MaxGrids
    /\ \E nd \in Sentinels : \E g \in GridSet(nd) :
          /\ grids # <<>> => nd = grids[1].noDataValue
          /\ grids' = Append(grids, g)
    /\ averaged' = averageGeorasters(grids')

\* First georasters that lack something: no band, an empty first band, a
\* row without columns, and a height or width field of 0 beside a band
\* that has rows and columns.
Malformed ==
    {[width |-> 1, height |-> 1, noDataValue |-> nd, values |-> v] :
        nd \in Sentinels, v \in {<<>>, <<<<>>>>}}
      \cup {[width |-> 0, height |-> 1, noDataValue |-> nd, values |-> <<<<<<>>>>>>] :
               nd \in Sentinels}
      \cup {[MkGrid(<<1, 1, 1>>, <<1, 1>>, nd) EXCEPT !.height = 0] : nd \in Sentinels}
      \cup {[MkGrid(<<1, 1, 1>>, <<1, 1>>, nd) EXCEPT !.width = 0] : nd \in Sentinels}

\* averageGeorasters on a list whose first georaster is one of these.
PushMalformed ==
    /\ grids = <<>>
    /\ \E g \in Malformed : grids' = <<g>>
    /\ averaged' = averageGeorasters(grids')

(***************************************************************************)
(* The MapManager singleton and the native maps it drives                  *)
(* (src/js/mapManager.js 2-506).                                           *)
(*                                                                         *)
(* A world w is [mm, lf, mb, stats, cache, obsCall]: the MapManager        *)
(* fields, the live Leaflet maps, the live Mapbox GL maps, the stats       *)
(* panel, the DataLoader cache and the latest overlay request.  A native   *)
(* map that was remove()d is dropped from lf or mb; a Mapbox map that is   *)
(* no longer referenced but was never removed stays in mb.  A Leaflet      *)
(* layer object is [kind, type, id, data]; it is on a map when it is in    *)
(* that map's layers.                                                      *)
(***************************************************************************)
EmptyLayers ==
    [risk |-> NoLayer, observations |-> NoLayer, range |-> NoLayer, geotiff |-> NoLayer]

LayerKeys == {"risk", "observations", "range", "geotiff"}

\* mapManager.js 3-18: the constructor.
\* Opacities are in hundredths, as on the transparency slider.
DefaultOpacity == 70
ObservationOpacity == 85

NewMapManager ==
    [map |-> NoId, mbMap |-> NoId, layers |-> EmptyLayers, currentRegion |-> "null",
     currentOpacity |-> DefaultOpacity]

Stats(kind, region, range) ==
    [kind |-> kind, region |-> region, range |-> range, info |-> FALSE]

NoRange == <<0, 0>>

World == [mm |-> mapManager, lf |-> leafletMaps, mb |-> mapboxMaps,
          stats |-> mapStats, cache |-> cache, obsCall |-> observationCall]

Commit(w) ==
    /\ mapManager' = w.mm
    /\ leafletMaps' = w.lf
    /\ mapboxMaps' = w.mb
    /\ mapStats' = w.stats
    /\ cache' = w.cache
    /\ observationCall' = w.obsCall

\* Every Leaflet layer object that some map or the registry still refers to.
LayerIds(w) ==
    UNION {{l.id : l \in w.lf[m].layers} : m \in DOMAIN w.lf}
      \cup {w.mm.layers[k].id : k \in {j \in LayerKeys : w.mm.layers[j].kind = "layer"}}

NewLayer(w, type, data, opacity) ==
    [kind |-> "layer", type |-> type, id |-> FreshId(LayerIds(w)), data |-> data,
     opacity |-> opacity]

\* L.Map.remove() / mapboxgl.Map.remove(): the instance is gone.
RemoveLeafletMap(w) ==
    IF w.mm.map # NoId THEN [w EXCEPT !.lf = Without(@, w.mm.map)] ELSE w

RemoveMapboxMap(w) ==
    IF w.mm.mbMap # NoId THEN [w EXCEPT !.mb = Without(@, w.mm.mbMap)] ELSE w

\* mapManager.js 23-49.
initMap(w) ==
    LET w1 == RemoveMapboxMap(RemoveLeafletMap(w))
        id == FreshId(DOMAIN w1.lf)
    IN  [w1 EXCEPT !.lf = (id :> [view |-> "default", layers |-> {}]) @@ @,
                   !.mm = [@ EXCEPT !.map = id, !.mbMap = NoId,
                                    !.layers = EmptyLayers]]

\* map.setView(region.center, region.zoom) on the mounted Leaflet map.
setView(w, region) ==
    [w EXCEPT !.lf = [@ EXCEPT ![w.mm.map] = [@ EXCEPT !.view = region]]]

\* this.map.removeLayer(layer), guarded by `layer && this.map`.
removeLayer(w, layer) ==
    IF layer # NoLayer /\ w.mm.map # NoId
    THEN [w EXCEPT !.lf = [@ EXCEPT ![w.mm.map] =
                              [@ EXCEPT !.layers = @ \ {layer}]]]
    ELSE w

\* mapManager.js 306-321.
removeObservationLayer(w) ==
    LET w1 == IF w.mm.mbMap # NoId
              THEN [w EXCEPT !.mb = [@ EXCEPT ![w.mm.mbMap] =
                       [@ EXCEPT !.layers = @ \ {"observations-layer"},
                                 !.sources = @ \ {"observations-source"},
                                 !.hidden = @ \ {"observations-layer"},
                                 !.obsData = NoData]]]
              ELSE w
        w2 == removeLayer(w1, w1.mm.layers.observations)
    IN  [w2 EXCEPT !.mm = [@ EXCEPT !.layers = [@ EXCEPT !.observations = NoLayer]]]

\* mapManager.js 201-256.
addObservationLayer(w, geojsonData, visible) ==
    LET w1 == removeObservationLayer(w)
        mb == w1.mm.mbMap
    IN  IF mb # NoId
        THEN IF ~w1.mb[mb].loaded
             THEN [w1 EXCEPT !.mb = [@ EXCEPT ![mb] = [@ EXCEPT !.once =
                        Append(@, [data |-> geojsonData, visible |-> visible])]]]
             ELSE [w1 EXCEPT
                     !.mb = [@ EXCEPT ![mb] =
                        [@ EXCEPT !.sources = @ \cup {"observations-source"},
                                  !.layers = @ \cup {"observations-layer"},
                                  !.hidden = IF visible THEN @
                                             ELSE @ \cup {"observations-layer"},
                                  !.obsData = geojsonData]],
                     !.mm = [@ EXCEPT !.layers =
                        [@ EXCEPT !.observations = geojsonData]]]
        ELSE IF w1.mm.map # NoId
        THEN LET layer == NewLayer(w1, "observations", geojsonData, ObservationOpacity)
                 w2 == [w1 EXCEPT !.mm = [@ EXCEPT !.layers =
                                             [@ EXCEPT !.observations = layer]]]
             IN  IF visible
                 THEN [w2 EXCEPT !.lf = [@ EXCEPT ![w2.mm.map] =
                                  [@ EXCEPT !.layers = @ \cup {layer}]]]
                 ELSE w2
        ELSE w1

\* mapManager.js 353-374.
RECURSIVE ClearKeys(_, _)
ClearKeys(w, keys) ==
    IF keys = {} THEN w
    ELSE LET k == CHOOSE j \in keys : TRUE
             w1 == removeLayer(w, w.mm.layers[k])
         IN  ClearKeys([w1 EXCEPT !.mm = [@ EXCEPT !.layers =
                                             [@ EXCEPT ![k] = NoLayer]]],
                       keys \ {k})

clearLayers(w) ==
    LET w1 == removeObservationLayer(ClearKeys(w, LayerKeys))
    IN  IF w1.mm.mbMap # NoId
        THEN [w1 EXCEPT !.mb = [@ EXCEPT ![w1.mm.mbMap] =
                [@ EXCEPT !.layers = @ \ {"muni-high-res", "muni-low-res",
                                          "observations-layer"},
                          !.sources = @ \ {"municipalities-low-res",
                                           "municipalities-high-res",
                                           "observations-source"},
                          !.hidden = @ \ {"muni-high-res", "muni-low-res",
                                           "observations-layer"},
                          !.fill = NoData, !.obsData = NoData]]]
        ELSE w1

\* mapManager.js 486-502.
destroy(w) ==
    LET w1 == RemoveMapboxMap(RemoveLeafletMap(removeObservationLayer(w)))
    IN  [w1 EXCEPT !.mm = [@ EXCEPT !.map = NoId, !.mbMap = NoId,
                                    !.layers = EmptyLayers]]

\* layer.addTo(this.map): Leaflet raises a TypeError when the map is null.
CanAddTo(w) == w.mm.map # NoId

addTo(w, layer) ==
    [w EXCEPT !.lf = [@ EXCEPT ![w.mm.map] = [@ EXCEPT !.layers = @ \cup {layer}]]]

\* mapManager.js 178-193: the registry entry is assigned after addTo returns,
\* so nothing changes when addTo raises (the caller's try/catch logs it).
addGeoJSONLayer(w, geojsonData) ==
    IF CanAddTo(w)
    THEN LET layer == NewLayer(w, "geojson", geojsonData, w.mm.currentOpacity)
         IN  [addTo(w, layer) EXCEPT !.mm = [@ EXCEPT !.layers =
                                                [@ EXCEPT !.risk = layer]]]
    ELSE w

\* mapManager.js 262-283.
addGeoTIFFLayer(w, georaster) ==
    IF ~env.GeoRasterLayer THEN w
    ELSE IF CanAddTo(w)
    THEN LET layer == NewLayer(w, "georaster", georaster, w.mm.currentOpacity)
         IN  [addTo(w, layer) EXCEPT !.mm = [@ EXCEPT !.layers =
                                                [@ EXCEPT !.geotiff = layer]]]
    ELSE w

\* mbMap.setLayoutProperty(id, 'visibility', ...) for the ids getLayer finds.
setVisibility(w, ids, visible) ==
    LET mb == w.mm.mbMap
    IN  IF mb = NoId THEN w
        ELSE [w EXCEPT !.mb[mb].hidden =
                 IF visible THEN @ \ ids ELSE @ \cup (ids \cap w.mb[mb].layers)]

\* this.map.addLayer(layer) / this.map.removeLayer(layer) under the guard
\* `layer && this.map`.  Leaflet's addLayer raises "The provided object is
\* not a Layer" for any other object; removeLayer ignores what is not on the
\* map.  r is the world and whether the call has raised.
toggleOnMap(r, layer, visible) ==
    IF r.raised \/ layer = NoLayer \/ r.w.mm.map = NoId THEN r
    ELSE IF ~visible THEN [r EXCEPT !.w = removeLayer(r.w, layer)]
    ELSE IF layer.kind = "layer" THEN [r EXCEPT !.w = addTo(r.w, layer)]
    ELSE [r EXCEPT !.raised = TRUE]

\* The guard `!layer` of the last branch left out.
toggleLayerUnguarded(w, layerName, visible) ==
    LET r == [w |-> w, raised |-> FALSE]
        layers == w.mm.layers
    IN  IF layerName = "risk"
        THEN LET r2 == toggleOnMap(toggleOnMap(r, layers.risk, visible),
                                   layers.geotiff, visible)
             IN  [r2 EXCEPT !.w = setVisibility(@, {"muni-high-res", "muni-low-res"},
                                                visible)]
        ELSE IF layerName = "observations"
        THEN toggleOnMap([r EXCEPT !.w = setVisibility(@, {"observations-layer"},
                                                       visible)],
                         layers.observations, visible)
        ELSE IF w.mm.map = NoId THEN r
        ELSE IF layerName \in LayerKeys /\ layers[layerName] # NoLayer
        THEN toggleOnMap(r, layers[layerName], visible)
        ELSE [r EXCEPT !.raised = TRUE]

\* mapManager.js 381-443.
toggleLayer(w, layerName, visible) ==
    LET r == [w |-> w, raised |-> FALSE]
        layers == w.mm.layers
    IN  IF layerName = "risk"
        THEN LET r2 == toggleOnMap(toggleOnMap(r, layers.risk, visible),
                                   layers.geotiff, visible)
             IN  [r2 EXCEPT !.w = setVisibility(@, {"muni-high-res", "muni-low-res"},
                                                visible)]
        ELSE IF layerName = "observations"
        THEN toggleOnMap([r EXCEPT !.w = setVisibility(@, {"observations-layer"},
                                                       visible)],
                         layers.observations, visible)
        ELSE IF layerName \in LayerKeys
        THEN toggleOnMap(r, layers[layerName], visible)
        ELSE r

\* layer.setStyle({fillOpacity}) / layer.setOpacity(opacity): the layer object
\* is the same wherever it is referred to.
WithOpacity(w, layer, opacity) ==
    LET Set(l) == IF l.kind = "layer" /\ l.id = layer.id
                  THEN [l EXCEPT !.opacity = opacity] ELSE l
    IN  [w EXCEPT !.lf = [m \in DOMAIN @ |->
                            [@[m] EXCEPT !.layers = {Set(l) : l \in @}]],
                  !.mm.layers = [k \in LayerKeys |-> Set(@[k])]]

\* mapManager.js 102-126.
setLayerOpacity(w, opacity) ==
    LET w1 == [w EXCEPT !.mm.currentOpacity = opacity]
        w2 == IF w1.mm.layers.risk # NoLayer
              THEN WithOpacity(w1, w1.mm.layers.risk, opacity) ELSE w1
        w3 == IF w2.mm.layers.geotiff # NoLayer
              THEN WithOpacity(w2, w2.mm.layers.geotiff, opacity) ELSE w2
        mb == w3.mm.mbMap
        high == mb # NoId /\ "muni-high-res" \in w3.mb[mb].layers
        low == mb # NoId /\ "muni-low-res" \in w3.mb[mb].layers
        w4 == IF high THEN [w3 EXCEPT !.mb[mb].fill.opacity.high = opacity] ELSE w3
    IN  IF low THEN [w4 EXCEPT !.mb[mb].fill.opacity.low = opacity] ELSE w4

(***************************************************************************)
(* Date ranges (src/js/app.js 19-53).                                      *)
(*                                                                         *)
(* An ISO date string is the number of its day, 2024-01-01 being day 1; 0  *)
(* is a missing or empty date.  A Date is an instant in hours since        *)
(* 2023-12-31T00:00Z: `new Date(iso)` is midnight UTC of the day and       *)
(* toISOString().split('T')[0] is the UTC day of the instant.  getDate,    *)
(* setDate, getMonth and setMonth work on the local wall clock, which is   *)
(* the instant plus the zone's offset: `dst` hours from the instant `from` *)
(* up to the instant `to`, `std` hours otherwise.                          *)
(***************************************************************************)
NoDate == 0
today == 1                              \* new Date().toISOString().split('T')[0]
NoInput == [missing |-> TRUE]           \* an undefined or null argument
StringInput(d) == [str |-> d]           \* a date passed as a string

DateOf(iso) == 24 * iso
toISODate(instant) == instant \div 24

UTC == [std |-> 0, dst |-> 0, from |-> 0, to |-> 0]
Offset(instant) ==
    IF timezone.from <= instant /\ instant < timezone.to THEN timezone.dst
    ELSE timezone.std

\* The instant of a local wall-clock time: a time the clock shows twice is
\* the earlier instant, a time the clock skips is read with the offset in
\* force before the change.
UTCOf(wall) ==
    IF Offset(wall - timezone.dst) = timezone.dst THEN wall - timezone.dst
    ELSE wall - timezone.std

\* cursor.setDate(cursor.getDate() + 1): the same wall-clock time one local
\* day later.
setNextDate(cursor) == UTCOf(cursor + Offset(cursor) + 24)

OrElse(a, b) == IF a # NoDate THEN a ELSE b

normalizeDateRangeNoSwap(dateInput) ==
    IF DOMAIN dateInput = {"str"}
    THEN [startDate |-> dateInput.str, endDate |-> dateInput.str]
    ELSE IF dateInput = NoInput THEN [startDate |-> today, endDate |-> today]
    ELSE [startDate |-> OrElse(dateInput.startDate, OrElse(dateInput.endDate, today)),
          endDate |-> OrElse(dateInput.endDate, OrElse(dateInput.startDate, today))]

normalizeDateRange(dateInput) ==
    IF DOMAIN dateInput = {"str"}
    THEN [startDate |-> dateInput.str, endDate |-> dateInput.str]
    ELSE IF dateInput = NoInput THEN [startDate |-> today, endDate |-> today]
    ELSE LET startDate == OrElse(dateInput.startDate, OrElse(dateInput.endDate, today))
             endDate == OrElse(dateInput.endDate, OrElse(dateInput.startDate, today))
         IN  IF DateOf(startDate) > DateOf(endDate)
             THEN [startDate |-> endDate, endDate |-> startDate]
             ELSE [startDate |-> startDate, endDate |-> endDate]

RECURSIVE DatesFrom(_, _)
DatesFrom(cursor, lastDate) ==
    IF cursor <= lastDate
    THEN <<toISODate(cursor)>> \o DatesFrom(setNextDate(cursor), lastDate)
    ELSE <<>>

buildDateArray(range) ==
    LET r == normalizeDateRange(range)
    IN  DatesFrom(DateOf(r.startDate), DateOf(r.endDate))

RangeLabel(r) == <<r.startDate, r.endDate>>

(***************************************************************************)
(* The observation filter of loadMosquitoObservations                      *)
(* (src/js/app.js 853-898).                                                *)
(*                                                                         *)
(* A point is its `properties`; of the configured candidates it may carry  *)
(* species, taxon and event_date, and the fallback property date.  A text  *)
(* is the list of its words, the empty list an empty or absent text.  A    *)
(* date value is absent, a text that is no date, or a UTC timestamp.       *)
(***************************************************************************)
NoText == <<>>
NoStamp == [kind |-> "none"]
NotADate == [kind |-> "text"]
Stamp(day, hour) == [kind |-> "date", day |-> day, hour |-> hour]

toLowerCase(word) ==
    CASE word = "Aedes" -> "aedes"
      [] word = "Albopictus" -> "albopictus"
      [] word = "Culex" -> "culex"
      [] OTHER -> word
Lowered(text) == [i \in DOMAIN text |-> toLowerCase(text[i])]

\* String.prototype.includes on texts.
Includes(text, term) ==
    \E i \in 0..(Len(text) - Len(term)) : SubSeq(text, i + 1, i + Len(term)) = term

\* speciesAliases[speciesKey]; the empty list is `undefined`.
speciesAliases(speciesKey) ==
    CASE speciesKey = "ae-albopictus" ->
             <<(<<"aedes", "albopictus">>), (<<"albopictus">>), (<<"ae.", "albopictus">>)>>
      [] speciesKey = "ae-aegypti" ->
             <<(<<"aedes", "aegypti">>), (<<"aegypti">>), (<<"ae.", "aegypti">>)>>
      [] speciesKey = "ae-japonicus" -> <<(<<"aedes", "japonicus">>), (<<"japonicus">>)>>
      [] speciesKey = "ae-koreicus" -> <<(<<"aedes", "koreicus">>), (<<"koreicus">>)>>
      [] speciesKey = "culex" -> <<(<<"culex">>), (<<"culex", "pipiens">>)>>
      [] OTHER -> <<>>

speciesTerms(speciesKey) ==
    IF speciesAliases(speciesKey) # <<>> THEN speciesAliases(speciesKey)
    ELSE << <<speciesKey>> >>

\* candidates.map(key => props[key]).find(Boolean)
speciesValue(props) == IF props.species # NoText THEN props.species ELSE props.taxon
dateValue(props) == IF props.event_date # NoStamp THEN props.event_date ELSE props.date

isWithinRange(value, startDateObj, endDateObj) ==
    /\ value.kind = "date"
    /\ DateOf(value.day) + value.hour >= startDateObj
    /\ DateOf(value.day) + value.hour <= endDateObj

matchesSpecies(props, terms) ==
    /\ speciesValue(props) # NoText
    /\ \E k \in DOMAIN terms :
          Includes(Lowered(speciesValue(props)), Lowered(terms[k]))

filteredFeatures(features, speciesKey, dateRange) ==
    LET range == normalizeDateRange(dateRange)
        startDateObj == DateOf(range.startDate)
        endDateObj == DateOf(range.endDate)
        Keep(props) == /\ isWithinRange(dateValue(props), startDateObj, endDateObj)
                       /\ matchesSpecies(props, speciesTerms(speciesKey))
    IN  SelectSeq(features, Keep)

(***************************************************************************)
(* The value of a time-series record in Visualization.createSimpleChart    *)
(* (src/js/visualization.js 91-99).                                        *)
(*                                                                         *)
(* A field of a record is absent, a number (JSON) or the text of a number  *)
(* (CSV, where parseCSV leaves every value a string).                      *)
(***************************************************************************)
Absent == [kind |-> "undefined"]
Number(n) == [kind |-> "number", n |-> n]
Text(n) == [kind |-> "string", n |-> n]

RiskAliases == <<"risk_level", "vri", "risk", "value", "ma_prob_mean", "ma_prob_max">>

\* What `||` takes for true: a number other than 0, or a text.
Truthy(v) == v.kind = "string" \/ (v.kind = "number" /\ v.n # 0)

parseFloat(v) == v.n

\* item.risk_level || item.vri || ... || item.ma_prob_max || 0, from the
\* k-th alias on.
RECURSIVE FirstTruthy(_, _)
FirstTruthy(item, k) ==
    IF k > Len(RiskAliases) THEN Number(0)
    ELSE IF Truthy(item[RiskAliases[k]]) THEN item[RiskAliases[k]]
    ELSE FirstTruthy(item, k + 1)

riskValue(item) == parseFloat(FirstTruthy(item, 1))

(***************************************************************************)
(* The coordinates of an observation point.  A coordinate of a CSV row is  *)
(* absent, the text of a number or another text; a GeoJSON feature has a   *)
(* pair of coordinates or no geometry.                                     *)
(***************************************************************************)
NaN == [kind |-> "NaN"]
Word == [kind |-> "word"]

\* parseFloat of a coordinate that may be missing or no number.
parseCoordinate(v) == IF v.kind \in {"string", "number"} THEN Number(v.n) ELSE NaN

\* Number.isFinite.
isFinite(v) == v.kind = "number"

\* part_005 902-927: the rows of the CSV become features; a row without a
\* finite latitude and longitude becomes null and is filtered out.
overlayFeature(row) ==
    [coordinates |-> [lon |-> parseCoordinate(row.lon), lat |-> parseCoordinate(row.lat)],
     presence |-> row.presence]

\* The test of the coordinates (part_005 913-915) left out.
overlayFeaturesUnfiltered(csvData) ==
    [k \in DOMAIN csvData |-> overlayFeature(csvData[k])]

overlayFeatures(csvData) ==
    LET Kept(row) == /\ isFinite(parseCoordinate(row.lat))
                     /\ isFinite(parseCoordinate(row.lon))
        rows == SelectSeq(csvData, Kept)
    IN  [k \in DOMAIN rows |-> overlayFeature(rows[k])]

\* dataLoader.loadObservations (called at app.js 869): the features of the
\* downloaded collection, a point without a pair of finite coordinates
\* excluded.
loadObservations(features) ==
    LET Located(feature) == /\ feature.coordinates # Absent
                            /\ isFinite(feature.coordinates.lon)
                            /\ isFinite(feature.coordinates.lat)
    IN  SelectSeq(features, Located)

(***************************************************************************)
(* Municipality aggregation of loadSpainMosquitoAlertData                  *)
(* (src/js/app.js 491-510).                                                *)
(*                                                                         *)
(* A row is a record that may lack NATCODE or ma_prob_mean (parseFloat of  *)
(* a missing field is NaN).  Values are integers in hundredths.            *)
(***************************************************************************)
Row(code, value) == [NATCODE |-> code, ma_prob_mean |-> value]

\* app.js 495-497: the row is ignored.
IgnoredRow(row) ==
    \/ "NATCODE" \notin DOMAIN row
    \/ "ma_prob_mean" \notin DOMAIN row
    \/ row.NATCODE = ""

\* A unit's count that is not advanced with its sum.
CountRowSumOnly(agg, row) ==
    IF IgnoredRow(row) THEN agg
    ELSE IF \E k \in 1..Len(agg) : agg[k].NATCODE = row.NATCODE
    THEN [k \in 1..Len(agg) |->
            IF agg[k].NATCODE = row.NATCODE
            THEN [agg[k] EXCEPT !.sum = @ + row.ma_prob_mean]
            ELSE agg[k]]
    ELSE Append(agg, [NATCODE |-> row.NATCODE, sum |-> row.ma_prob_mean, count |-> 1])

\* app.js 494-503: one row; aggregatedByCode is a Map, which keeps the
\* order in which the codes were first set.
CountRow(agg, row) ==
    IF IgnoredRow(row) THEN agg
    ELSE IF \E k \in 1..Len(agg) : agg[k].NATCODE = row.NATCODE
    THEN [k \in 1..Len(agg) |->
            IF agg[k].NATCODE = row.NATCODE
            THEN [agg[k] EXCEPT !.sum = @ + row.ma_prob_mean, !.count = @ + 1]
            ELSE agg[k]]
    ELSE Append(agg, [NATCODE |-> row.NATCODE, sum |-> row.ma_prob_mean, count |-> 1])

\* app.js 494: rows.forEach.
RECURSIVE CountRows(_, _)
CountRows(agg, rows) ==
    IF rows = <<>> THEN agg
    ELSE CountRows(CountRow(agg, Head(rows)), Tail(rows))

\* app.js 493: allRows.forEach.
RECURSIVE CountDays(_, _)
CountDays(agg, allRows) ==
    IF allRows = <<>> THEN agg
    ELSE CountDays(CountRows(agg, Head(allRows).rows), Tail(allRows))

\* app.js 506-510.
AggregateRows(allRows) ==
    LET byCode == CountDays(<<>>, allRows)
    IN  [k \in 1..Len(byCode) |->
            [NATCODE |-> byCode[k].NATCODE,
             ma_prob_mean |-> Quot(byCode[k].sum, byCode[k].count)]]

(***************************************************************************)
(* The Visualization singleton (src/unnamed/part_001 2-736).  A Chart      *)
(* instance is named by its number in the order of construction; `live`    *)
(* holds the instances whose destroy() was not called.  A createRiskChart  *)
(* call that waits for its data is [n, kind, pc]: the number of the call,  *)
(* the chart it builds and the await it is suspended at.  Nothing of the   *)
(* Visualization changes between the awaits inside loadTimeSeriesData      *)
(* (33-45), which are one suspension here.                                 *)
(***************************************************************************)
\* part_001 3-4: the constructor.
NewVisualization ==
    [chart |-> NoId, live |-> {}, made |-> 0, started |-> 0, by |-> 0,
     pending |-> <<>>]

VizInit == visualization = NewVisualization

newChartKeepsOld(v, n) ==
    [v EXCEPT !.chart = v.made + 1, !.live = @ \cup {v.made + 1},
              !.made = @ + 1, !.by = n]

\* part_001 118-125 (271-278, 435-442, 689-694): the chart this.chart refers
\* to is destroyed and this.chart becomes a new Chart, in one segment.
newChart(v, n) ==
    LET v1 == IF v.chart # NoId THEN [v EXCEPT !.live = @ \ {v.chart}] ELSE v
    IN  [v1 EXCEPT !.chart = v.made + 1, !.live = @ \cup {v.made + 1},
                   !.made = @ + 1, !.by = n]

\* part_001 53-68 with 75-98, 192-197 and 355-360: up to the awaited
\* loadTimeSeriesData.  perUnit says whether the configuration of the region
\* names a series per district or per autonomous community.
createRiskChart(v, regionKey, canvas, perUnit) ==
    LET kind == IF regionKey = "barcelona" /\ perUnit THEN "district"
                ELSE IF regionKey = "spain" /\ perUnit THEN "ccaa"
                ELSE "simple"
        v1 == [v EXCEPT !.started = @ + 1]
    IN  IF ~canvas THEN v1
        ELSE [v1 EXCEPT !.pending =
                 Append(@, [n |-> v1.started, kind |-> kind, pc |-> "timeseries"])]

\* part_001 98-125, 197-278 and 360-442: an awaited promise of the i-th
\* waiting call has settled.  The simple chart is drawn once the time series
\* is there; the other two fetch the series per unit first (202, 365), and a
\* failure of that fetch is caught (207-209, 370-372).
createChartResumed(v, i) ==
    LET call == v.pending[i]
        others == SubSeq(v.pending, 1, i - 1) \o SubSeq(v.pending, i + 1, Len(v.pending))
    IN  IF call.kind # "simple" /\ call.pc = "timeseries"
        THEN [v EXCEPT !.pending[i].pc = "series"]
        ELSE newChart([v EXCEPT !.pending = others], call.n)

\* part_001 685-729.
createBarChart(v, canvas) ==
    LET v1 == [v EXCEPT !.started = @ + 1]
    IN  IF ~canvas THEN v1 ELSE newChart(v1, v1.started)

\* part_001 731-736: Visualization.destroy.
visualizationDestroy(v) ==
    IF v.chart # NoId THEN [v EXCEPT !.live = @ \ {v.chart}, !.chart = NoId]
    ELSE v

(***************************************************************************)
(* Async invocations.  A call record holds the locals of one invocation    *)
(* and pc, the await it is suspended at ("done" once it has returned).     *)
(* Each operator below is one segment: it maps the world and the call to   *)
(* Res(world, call) after the segment.                                     *)
(***************************************************************************)
Res(w, next) == [w |-> w, next |-> next, seg |-> next, spawn |-> <<>>]

Return(call) == [call EXCEPT !.pc = "done"]

\* A catch block that reports in the stats panel and returns.
Caught(w, call, region) ==
    Res([w EXCEPT !.stats = Stats("error", region, NoRange)],
        [call EXCEPT !.pc = "done", !.aborted = TRUE])

(***************************************************************************)
(* loadSpainMosquitoAlertData (src/js/app.js 453-664).                     *)
(***************************************************************************)
\* app.js 522-525 left out: the Leaflet map stays mounted.
mountMapboxKeepsLeaflet(w, aggregatedArray, range) ==
    LET id == FreshId(DOMAIN w.mb)
    IN  [w EXCEPT !.mb = (id :> [center |-> "spain", loaded |-> FALSE,
                                 sources |-> {"satellite"},
                                 layers |-> {"satellite-layer"},
                                 obsData |-> NoData, fill |-> NoData, hidden |-> {},
                                 onLoad |-> [rows |-> aggregatedArray, range |-> range],
                                 once |-> <<>>]) @@ @,
                  !.mm.mbMap = id]

\* app.js 520-566: the Leaflet map is removed, the container cleared and a
\* Mapbox GL map created; the previous mbMap, if any, is not removed.
mountMapbox(w, aggregatedArray, range) ==
    LET w1 == [RemoveLeafletMap(w) EXCEPT !.mm.map = NoId]
        id == FreshId(DOMAIN w1.mb)
    IN  [w1 EXCEPT !.mb = (id :> [center |-> "spain", loaded |-> FALSE,
                                  sources |-> {"satellite"},
                                  layers |-> {"satellite-layer"},
                                  obsData |-> NoData, fill |-> NoData, hidden |-> {},
                                  onLoad |-> [rows |-> aggregatedArray, range |-> range],
                                  once |-> <<>>]) @@ @,
                   !.mm.mbMap = id]

\* app.js 453-477: up to the await of Promise.allSettled.
spainStart(w, dateInput, outer) ==
    LET range == normalizeDateRange(dateInput)
    IN  Res([w EXCEPT !.mm.currentRegion = "spain",
                      !.stats = Stats("loading", "spain", RangeLabel(range))],
            [op |-> "spain", pc |-> "fetch", outer |-> outer, aborted |-> FALSE,
             region |-> "spain", range |-> RangeLabel(range),
             dates |-> buildDateArray(range), responses |-> <<>>, i |-> 0,
             allRows |-> <<>>, aggregatedArray |-> <<>>])

\* The empty-result return of app.js 512-517 left out.
spainFinishMountsEmpty(w, call) ==
    LET aggregatedArray == AggregateRows(call.allRows)
        done == [call EXCEPT !.pc = "done", !.aggregatedArray = aggregatedArray]
    IN  IF env.mapboxgl
        THEN Res(mountMapbox(w, aggregatedArray, call.range), done)
        ELSE Res([w EXCEPT !.stats = Stats("fallback", "spain", call.range)], done)

\* app.js 491-655: aggregation and mount, after the last body was read.
spainFinish(w, call) ==
    LET aggregatedArray == AggregateRows(call.allRows)
        done == [call EXCEPT !.pc = "done", !.aggregatedArray = aggregatedArray]
    IN  IF aggregatedArray = <<>>
        THEN Res([w EXCEPT !.stats = Stats("nodata", "spain", call.range)], done)
        ELSE IF env.mapboxgl
        THEN Res(mountMapbox(w, aggregatedArray, call.range), done)
        ELSE Res([w EXCEPT !.stats = Stats("fallback", "spain", call.range)], done)

\* A loop that ends at the first result it cannot use.
spainLoopStopsAtFailure(w, call, from) ==
    IF from > Len(call.responses) \/ call.responses[from] # "ok"
    THEN spainFinish(w, call)
    ELSE Res(w, [call EXCEPT !.pc = "json", !.i = from])

\* app.js 480-489: the loop skips rejected and non-2xx results and awaits
\* res.json() of the next fulfilled 2xx response.
spainLoop(w, call, from) ==
    LET oks == {k \in from..Len(call.responses) : call.responses[k] = "ok"}
    IN  IF oks = {} THEN spainFinish(w, call)
        ELSE Res(w, [call EXCEPT !.pc = "json",
                                 !.i = CHOOSE k \in oks : \A j \in oks : k <= j])

\* Promise.allSettled resolved with one result per requested date.
spainSettled(w, call, responses) ==
    spainLoop(w, [call EXCEPT !.responses = responses], 1)

\* res.json() settled: a body that is not JSON rejects it (catch, 657-663).
spainJson(w, call, body) ==
    IF ~body.ok THEN Caught(w, call, "spain")
    ELSE spainLoop(w, [call EXCEPT !.allRows =
                         Append(@, [date |-> call.dates[call.i], rows |-> body.rows])],
                   call.i + 1)

\* app.js 568-644: the 'load' handler of the Mapbox map `id`, then the
\* listeners addObservationLayer registered with once('load').
RECURSIVE RunOnce(_, _)
RunOnce(w, handlers) ==
    IF handlers = <<>> THEN w
    ELSE RunOnce(addObservationLayer(w, Head(handlers).data, Head(handlers).visible),
                 Tail(handlers))

\* The stats of app.js 633-643 left out.
mapboxLoadKeepsStats(w, id) ==
    LET m == w.mb[id]
        w1 == [w EXCEPT
                 !.mb[id] = [m EXCEPT
                     !.loaded = TRUE, !.once = <<>>,
                     !.sources = @ \cup {"municipalities-low-res",
                                         "municipalities-high-res"},
                     !.layers = @ \cup {"muni-high-res", "muni-low-res"},
                     !.fill = [kind |-> "data", src |-> "municipalities",
                               rows |-> m.onLoad.rows,
                               opacity |-> [high |-> w.mm.currentOpacity,
                                            low |-> w.mm.currentOpacity]]]]
    IN  RunOnce(w1, m.once)

mapboxLoad(w, id) ==
    LET m == w.mb[id]
        w1 == [w EXCEPT
                 !.mb[id] = [m EXCEPT
                     !.loaded = TRUE, !.once = <<>>,
                     !.sources = @ \cup {"municipalities-low-res",
                                         "municipalities-high-res"},
                     !.layers = @ \cup {"muni-high-res", "muni-low-res"},
                     !.fill = [kind |-> "data", src |-> "municipalities",
                               rows |-> m.onLoad.rows,
                               opacity |-> [high |-> w.mm.currentOpacity,
                                            low |-> w.mm.currentOpacity]]],
                 !.stats = Stats("stats", "spain", m.onLoad.range)]
    IN  RunOnce(w1, m.once)

(***************************************************************************)
(* loadBarcelonaMosquitoAlertData (src/js/app.js 670-776).                 *)
(***************************************************************************)
\* app.js 670-712: up to the first awaited fetch.
bcnStart(w, dateInput, outer) ==
    LET range == normalizeDateRange(dateInput)
        w1 == [w EXCEPT !.mm.currentRegion = "barcelona",
                        !.stats = Stats("loading", "barcelona", RangeLabel(range))]
        w2 == [RemoveMapboxMap(w1) EXCEPT !.mm.mbMap = NoId]
        w3 == setView(initMap(w2), "barcelona")
        w4 == [removeLayer(w3, w3.mm.layers.geotiff) EXCEPT
                  !.mm.layers.geotiff = NoLayer]
        call == [op |-> "barcelona", pc |-> "fetch", outer |-> outer,
                 aborted |-> FALSE, region |-> "barcelona",
                 range |-> RangeLabel(range), dates |-> buildDateArray(range),
                 i |-> 1, outcomes |-> <<>>, georasters |-> <<>>,
                 mounted |-> w3.mm.map]
    IN  IF ~env.parseGeoraster THEN Caught(w4, call, "barcelona")
        ELSE Res(w4, call)

\* app.js 722-767: after the loop.
bcnFinish(w, call) ==
    IF call.georasters = <<>> THEN Caught(w, call, "barcelona")
    ELSE IF ~env.GeoRasterLayer THEN Caught(w, call, "barcelona")
    ELSE LET layer == NewLayer(w, "georaster",
                         [kind |-> "data", src |-> "vri", of |-> call.range,
                          raster |-> averageGeorasters(call.georasters)],
                         w.mm.currentOpacity)
             w1 == [w EXCEPT !.mm.layers.geotiff = layer]
         IN  IF ~CanAddTo(w1) THEN Caught(w1, call, "barcelona")
             ELSE Res([addTo(w1, layer) EXCEPT
                         !.stats = Stats("stats", "barcelona", call.range)],
                      Return(call))

\* app.js 710-712: the next date of the loop, or the end of the loop.
bcnNext(w, call) ==
    IF call.i < Len(call.dates)
    THEN Res(w, [call EXCEPT !.pc = "fetch", !.i = @ + 1])
    ELSE bcnFinish(w, call)

\* app.js 712-717: `await fetch(url)` settled.  A rejection is raised at the
\* await, inside the function's try block.
bcnFetched(w, call, outcome) ==
    LET c == [call EXCEPT !.outcomes = Append(@, outcome)]
    IN  IF outcome = "rejected" THEN Caught(w, c, "barcelona")
        ELSE IF outcome = "http404" THEN bcnNext(w, c)
        ELSE Res(w, [c EXCEPT !.pc = "decode"])

\* app.js 717-719: arrayBuffer() and parseGeoraster() settled.
bcnDecoded(w, call, result) ==
    IF ~result.ok
    THEN Caught(w, [call EXCEPT !.outcomes[call.i] = "undecodable"], "barcelona")
    ELSE bcnNext(w, [call EXCEPT !.georasters = Append(@, result.raster)])

(***************************************************************************)
(* MapManager.loadRegion and updateStats (src/js/mapManager.js 132-172,    *)
(* 449-481) over DataLoader (748-853).  The cache maps a URL to the value  *)
(* parsed from it.  A load whose URL is cached returns without a fetch, so *)
(* the caller goes on in the same segment.                                 *)
(***************************************************************************)
Url(kind, region) == <<kind, region>>

Cached(w, url) == url \in DOMAIN w.cache

\* DataLoader.loadCSV, loadGeoJSON and loadGeoTIFF (mapManager.js 758-853)
\* once their fetch has settled with `outcome`: the parsed value is cached
\* and returned; a failed load returns the sample series, the sample
\* FeatureCollection or null and caches nothing.
\* Months are counted from December 2023 (0) to January 2025 (13).
DaysInMonth(month) ==
    CASE month \in {4, 6, 9, 11} -> 30
      [] month = 2 -> 29
      [] OTHER -> 31

RECURSIVE FirstDay(_)
FirstDay(month) ==
    IF month = 1 THEN 1
    ELSE IF month < 1 THEN FirstDay(month + 1) - DaysInMonth(month)
    ELSE FirstDay(month - 1) + DaysInMonth(month - 1)

\* Date.getMonth: the month of the local day.
getMonth(date) ==
    LET day == (date + Offset(date)) \div 24
    IN  CHOOSE month \in 0..13 :
            FirstDay(month) <= day /\ day < FirstDay(month) + DaysInMonth(month)

\* Date.setMonth: the same local day of the month and wall-clock time in
\* `month`; a day the month does not have runs over into the next month.
setMonth(date, month) ==
    LET wall == date + Offset(date)
        dayOfMonth == (wall \div 24) - FirstDay(getMonth(date))
    IN  UTCOf(24 * (FirstDay(month) + dayOfMonth) + (wall % 24))

\* mapManager.js 859-877.  random is the sequence of values Math.random()
\* returns, in hundredths; the fields are in hundredths too.
generateSampleCSVData(random) ==
    LET startDate == DateOf(1)
    IN  [i \in 1..12 |->
            [date |-> toISODate(setMonth(startDate, getMonth(startDate) + i - 1)),
             risk_level |-> random[4 * i - 3] * 100,
             temperature |-> 1500 + random[4 * i - 2] * 20,
             humidity |-> 4000 + random[4 * i - 1] * 40,
             cases |-> random[4 * i]]]

\* mapManager.js 784-798: the rows of a text, none for a header alone.
parseCSV(csvText) ==
    IF csvText = "empty" THEN <<>>
    ELSE IF csvText = "points"
    THEN <<[lat |-> "41", lon |-> "2", presence |-> "true", date |-> 1]>>
    ELSE <<[date |-> 1, risk_level |-> "50"]>>

\* outcome is "rows" or "empty" for a body that was read, or says how the
\* fetch failed.
loadCSV(w, url, outcome, random) ==
    IF outcome \notin {"rows", "points", "empty"}
    THEN [w |-> w, data |-> generateSampleCSVData(random)]
    ELSE [w |-> [w EXCEPT !.cache = (url :> parseCSV(outcome)) @@ @],
          data |-> parseCSV(outcome)]

\* part_006 38-74: DataLoader.getCSVText.  The response says whether it is
\* flagged as gzip and how each way of reading its body ends; the result is
\* the text handed to parseCSV ("unreadable": the rejection of
\* response.text() leaves the method) and the ways that were tried, in order.
getCSVText(response) ==
    LET streamed == IF response.stream # "unavailable" THEN <<"stream">> ELSE <<>>
        inflated == IF response.buffer = "read" /\ response.pako # "unavailable"
                    THEN streamed \o <<"pako">> ELSE streamed
    IN  IF ~response.gzip
        THEN [text |-> IF response.plain = "text" THEN "rows" ELSE "unreadable",
              tried |-> <<"plain">>]
        ELSE IF response.stream = "text" THEN [text |-> "rows", tried |-> streamed]
        ELSE IF response.buffer = "read" /\ response.pako = "text"
        THEN [text |-> "rows", tried |-> inflated]
        ELSE IF response.plain = "text"
        THEN [text |-> "rows", tried |-> inflated \o <<"plain">>]
        ELSE [text |-> "empty", tried |-> inflated \o <<"plain">>]

loadGeoJSONCachesSample(w, url, outcome) ==
    IF outcome = "failed"
    THEN [w |-> [w EXCEPT !.cache = (url :> SampleGeoJSON) @@ @],
          data |-> SampleGeoJSON]
    ELSE [w |-> [w EXCEPT !.cache = (url :> GeoJSONOf(url[2])) @@ @],
          data |-> GeoJSONOf(url[2])]

loadGeoJSON(w, url, outcome) ==
    IF outcome = "failed" THEN [w |-> w, data |-> SampleGeoJSON]
    ELSE [w |-> [w EXCEPT !.cache = (url :> GeoJSONOf(url[2])) @@ @],
          data |-> GeoJSONOf(url[2])]

loadGeoTIFF(w, url, outcome) ==
    IF outcome = "failed" \/ ~env.parseGeoraster THEN [w |-> w, data |-> NoData]
    ELSE [w |-> [w EXCEPT !.cache = (url :> GeoTIFFOf(url[2])) @@ @],
          data |-> GeoTIFFOf(url[2])]

\* mapManager.js 458-476: the statistics of the series, or "No data
\* available" for an empty one.
csvLoaded(w, call, csvData) ==
    Res([w EXCEPT !.stats =
            IF Len(csvData) = 0
            THEN Stats("regionNoData", call.region, NoRange)
            ELSE Stats("regionStats", call.region, NoRange)],
        Return(call))

regionCsv(w, call, outcome, random) ==
    LET r == loadCSV(w, Url("csv", call.region), outcome, random)
    IN  csvLoaded(r.w, call, r.data)

\* mapManager.js 449-456 and 171: updateStats runs up to its awaited loadCSV;
\* loadRegion does not await it and returns.
updateStats(w, call) ==
    LET stats == [op |-> "updateStats", pc |-> "csv", outer |-> FALSE,
                  aborted |-> FALSE, region |-> call.region]
        url == Url("csv", call.region)
    IN  IF Cached(w, url)
        THEN [csvLoaded(w, stats, w.cache[url]) EXCEPT !.next = Return(call),
                                                       !.seg = Return(call)]
        ELSE [Res(w, Return(call)) EXCEPT !.spawn = <<stats>>]

\* mapManager.js 163-171: the raster, when there is one, is added and
\* updateStats is called.
geotiffLoaded(w, call, geotiffData) ==
    updateStats(IF geotiffData # NoData THEN addGeoTIFFLayer(w, geotiffData) ELSE w,
                call)

regionGeoTIFF(w, call, outcome) ==
    LET r == loadGeoTIFF(w, Url("geotiff", call.region), outcome)
    IN  geotiffLoaded(r.w, call, r.data)

\* mapManager.js 155-162: the risk layer is added and loadGeoTIFF awaited.
geojsonLoaded(w, call, geojsonData) ==
    LET w1 == addGeoJSONLayer(w, geojsonData)
        url == Url("geotiff", call.region)
    IN  IF Cached(w1, url) THEN geotiffLoaded(w1, call, w1.cache[url])
        ELSE Res(w1, [call EXCEPT !.pc = "geotiff"])

regionGeoJSON(w, call, outcome) ==
    LET r == loadGeoJSON(w, Url("geojson", call.region), outcome)
    IN  geojsonLoaded(r.w, call, r.data)

\* mapManager.js 132-154.
loadRegion(w, regionKey, outer) ==
    LET w1 == [w EXCEPT !.mm.currentRegion = regionKey]
        w2 == IF w1.mm.map = NoId THEN initMap(w1) ELSE w1
        w3 == clearLayers(setView(w2, regionKey))
        call == [op |-> "loadRegion", pc |-> "geojson", outer |-> outer,
                 aborted |-> FALSE, region |-> regionKey, mounted |-> w2.mm.map]
        url == Url("geojson", regionKey)
    IN  IF Cached(w3, url) THEN geojsonLoaded(w3, call, w3.cache[url])
        ELSE Res(w3, call)

(***************************************************************************)
(* loadMosquitoObservations (src/js/app.js 849-907).  The collection that  *)
(* the filter leaves is named by its tag; "none" is the empty collection.  *)
(***************************************************************************)
\* MapManager.setObservationsData, called at app.js 900: the collection
\* replaces the observation overlay of the mounted map.
setObservationsData(w, collection) ==
    addObservationLayer([w EXCEPT !.obsCall = collection], collection, TRUE)

\* app.js 870-906: after dataLoader.loadObservations settled.
observationsLoaded(w, call, tag) ==
    LET w1 == setObservationsData(w, ObservationsOf(tag))
    IN  Res(IF tag = "none" THEN [w1 EXCEPT !.stats.info = TRUE] ELSE w1,
            Return(call))

\* app.js 849-869: up to the awaited dataLoader.loadObservations.
loadMosquitoObservations(w, regionKey) ==
    Res(w, [op |-> "observations", pc |-> "fetch", outer |-> FALSE,
            aborted |-> FALSE, region |-> regionKey])

(***************************************************************************)
(* showRegion (src/js/app.js 244-420).                                     *)
(***************************************************************************)
ComingSoon == {"brazil"}

\* app.js 375-410: the loader has returned; loadMosquitoObservations is
\* awaited next.
AfterLoader(res) ==
    IF res.next.pc = "done" /\ res.next.outer
    THEN [loadMosquitoObservations(res.w, res.next.region) EXCEPT
             !.seg = res.next, !.spawn = res.spawn]
    ELSE res

\* app.js 244-399; a coming-soon region returns at 267-283.
showRegion(w, regionKey, dateInput) ==
    LET w1 == [w EXCEPT !.stats = Stats("loadingRegion", regionKey, NoRange)]
    IN  IF regionKey \in ComingSoon
        THEN Res(w, [op |-> "showRegion", pc |-> "done", outer |-> FALSE,
                     aborted |-> FALSE, region |-> regionKey])
        ELSE IF regionKey = "barcelona" THEN AfterLoader(bcnStart(w1, dateInput, TRUE))
        ELSE IF regionKey = "spain" THEN AfterLoader(spainStart(w1, dateInput, TRUE))
        ELSE AfterLoader(loadRegion(w1, regionKey, TRUE))

\* app.js 328-343: the change listener of the date pickers.  Neither the
\* loader nor loadMosquitoObservations is awaited.
refreshForRange(w, regionKey, dateInput) ==
    LET r1 == IF regionKey = "barcelona" THEN bcnStart(w, dateInput, FALSE)
              ELSE spainStart(w, dateInput, FALSE)
        r2 == loadMosquitoObservations(r1.w, regionKey)
    IN  [r1 EXCEPT !.w = r2.w, !.spawn = r1.spawn \o <<r2.next>>]

(***************************************************************************)
(* The single-date loadSpainMosquitoAlertData with its fallback            *)
(* (src/unnamed/part_005 875-1216), called with the municipality model.    *)
(* env.observationsUrl says whether the configuration of Spain names an    *)
(* observations file.                                                      *)
(***************************************************************************)
\* part_005 903-929: the rows with finite coordinates become the features.
HasCoordinates(row) == {"lat", "lon"} \subseteq DOMAIN row

overlayCollection(csvData) ==
    IF SelectSeq(csvData, HasCoordinates) # <<>> THEN ObservationsOf("some")
    ELSE ObservationsOf("none")

\* part_005 900-941: after dataLoader.loadCSV settled.
overlayLoaded(w, csvData, visible) ==
    addObservationLayer(w, overlayCollection(csvData), visible)

\* mapManager.js 327-338: the number of features of the observation overlay
\* (a collection other than "none" has one).
getObservationFeatureCount(w) ==
    LET layer == w.mm.layers.observations
        collection == IF layer.kind = "layer" THEN layer.data ELSE layer
    IN  IF layer = NoLayer \/ collection.of = "none" THEN 0 ELSE 1

\* part_005 875-899: loadObservationOverlay up to its awaited loadCSV.
\* `call` is the invocation that awaits it, or that it becomes.
loadObservationOverlay(w, call) ==
    LET mb == w.mm.mbMap
    IN  IF ~env.observationsUrl
        THEN Res(removeObservationLayer(w), Return(call))
        ELSE IF mb # NoId /\ ~w.mb[mb].loaded
        THEN Res([w EXCEPT !.mb = [@ EXCEPT ![mb] = [@ EXCEPT !.reload = @ + 1]]],
                 Return(call))
        ELSE IF w.mm.map = NoId /\ mb = NoId THEN Res(w, Return(call))
        ELSE Res(w, [call EXCEPT !.pc = "csv"])

\* part_005 995-1054: the previous backend, Mapbox GL or Leaflet, is removed
\* and a Mapbox GL map created.
mountMapboxDate(w, muniData, date) ==
    LET w1 == [RemoveMapboxMap(w) EXCEPT !.mm.mbMap = NoId]
        w2 == [RemoveLeafletMap(w1) EXCEPT !.mm.map = NoId,
                                           !.mm.layers.geotiff = NoLayer]
        id == FreshId(DOMAIN w2.mb)
    IN  [w2 EXCEPT !.mb = (id :> [center |-> "spain", loaded |-> FALSE,
                                  sources |-> {"satellite"},
                                  layers |-> {"satellite-layer"},
                                  obsData |-> NoData, fill |-> NoData, hidden |-> {},
                                  onLoad |-> [rows |-> muniData,
                                              range |-> <<date, date>>],
                                  once |-> <<>>, reload |-> 0]) @@ @,
                   !.mm.mbMap = id]

\* part_005 952-982: up to the awaited fetch.
spainDateStart(w, date) ==
    Res([w EXCEPT !.stats = Stats("loading", "spain", <<date, date>>)],
        [op |-> "spainDate", pc |-> "fetch", outer |-> FALSE, aborted |-> FALSE,
         region |-> "spain", date |-> date, failure |-> "none",
         attempted |-> FALSE])

\* part_005 1207-1214: the error message, with the note on the observations
\* when some are shown.
spainDateFailed(w, call, shown) ==
    Res([w EXCEPT !.stats = [Stats("error", "spain", NoRange) EXCEPT !.info = shown]],
        [call EXCEPT !.pc = "done", !.aborted = TRUE])

\* part_005 1199-1204: the features of the overlay are counted, once more
\* after a frame when the overlay has none.
spainDateCounted(w, call) ==
    LET featureCount == getObservationFeatureCount(w)
    IN  IF featureCount = 0 /\ w.mm.layers.observations # NoLayer
        THEN Res(w, [call EXCEPT !.pc = "frame"])
        ELSE spainDateFailed(w, call, featureCount > 0)

\* part_005 1184-1198: the catch block up to the awaited overlay.
spainDateFallback(w, call) ==
    LET w1 == IF w.mm.mbMap # NoId
              THEN [RemoveMapboxMap(w) EXCEPT !.mm.mbMap = NoId]
              ELSE w
        w2 == setView(initMap(w1), "spain")
        r == loadObservationOverlay(w2, [call EXCEPT !.attempted = TRUE])
    IN  IF ~env.observationsUrl THEN spainDateFailed(w2, call, FALSE)
        ELSE IF r.next.pc = "csv" THEN r
        ELSE spainDateCounted(r.w, [call EXCEPT !.attempted = TRUE])

\* part_005 982-985: fetch settled; a rejection or a non-2xx response throws.
spainDateFetched(w, call, outcome) ==
    IF outcome = "ok" THEN Res(w, [call EXCEPT !.pc = "json"])
    ELSE spainDateFallback(w, [call EXCEPT !.failure = "fetch"])

\* part_005 985-1182: response.json() settled.
spainDateJson(w, call, body) ==
    IF ~body.ok THEN spainDateFallback(w, [call EXCEPT !.failure = "json"])
    ELSE IF env.mapboxgl
    THEN Res(mountMapboxDate(w, body.rows, call.date), Return(call))
    ELSE Res([w EXCEPT !.stats = Stats("fallback", "spain", <<call.date, call.date>>)],
             Return(call))

\* part_005 1258-1266 with the file pattern of the configuration
\* (part_002 87), which has no gridFilePattern: the candidate file names.
CandidatePatterns == <<"grid_preds_{date}.tif", "muni_preds_{date}.tif",
                       "grid_preds_{date}.tif">>

\* part_005 1223-1276: loadSpainMosquitoAlertGridData up to its first
\* awaited fetch.
spainGridStart(w, date) ==
    LET w1 == [w EXCEPT !.stats = Stats("loading", "spain", <<date, date>>)]
        w2 == [RemoveMapboxMap(w1) EXCEPT !.mm.mbMap = NoId]
        w3 == setView(initMap(w2), "spain")
        w4 == [removeLayer(w3, w3.mm.layers.geotiff) EXCEPT
                  !.mm.layers.geotiff = NoLayer]
    IN  Res(w4, [op |-> "spainGrid", pc |-> "fetch", outer |-> FALSE,
                 aborted |-> FALSE, region |-> "spain", date |-> date, i |-> 1,
                 tried |-> <<CandidatePatterns[1]>>, outcomes |-> <<>>])

\* part_005 1270-1296: the next candidate, or the message that none was
\* found.
\* The loop left at the first candidate that fails.
spainGridNextGivesUp(w, call) ==
    Res([w EXCEPT !.stats = Stats("error", "spain", NoRange)], Return(call))

spainGridNext(w, call) ==
    IF call.i < Len(CandidatePatterns)
    THEN Res(w, [call EXCEPT !.pc = "fetch", !.i = @ + 1,
                             !.tried = Append(@, CandidatePatterns[call.i + 1])])
    ELSE Res([w EXCEPT !.stats = Stats("error", "spain", NoRange)], Return(call))

\* part_005 1275-1277: the fetch of a candidate settled.
spainGridFetched(w, call, outcome) ==
    IF outcome = "ok" THEN Res(w, [call EXCEPT !.pc = "decode"])
    ELSE spainGridNext(w, [call EXCEPT !.outcomes = Append(@, outcome)])

\* part_005 1277-1335: arrayBuffer() and parseGeoraster() settled; the layer
\* is built and added, an exception reaching the catch of
\* loadSpainMosquitoAlertData (964-971).
spainGridDecoded(w, call0, result) ==
    LET call == [call0 EXCEPT !.outcomes =
                    Append(@, IF ~env.parseGeoraster THEN "no decoder"
                              ELSE IF result.ok THEN "decoded"
                              ELSE "undecodable")]
    IN
    IF ~env.parseGeoraster \/ ~result.ok THEN spainGridNext(w, call)
    ELSE IF ~env.GeoRasterLayer THEN Caught(w, call, "spain")
    ELSE LET layer == NewLayer(w, "georaster",
                         [kind |-> "data", src |-> "grid", of |-> <<call.date, call.date>>],
                         w.mm.currentOpacity)
             w1 == [w EXCEPT !.mm.layers.geotiff = layer]
         IN  IF ~CanAddTo(w1) THEN Caught(w1, call, "spain")
             ELSE Res([addTo(w1, layer) EXCEPT
                         !.stats = Stats("stats", "spain", <<call.date, call.date>>)],
                      Return(call))

\* part_005 1198-1199: the overlay awaited by the catch block has been added.
spainDateOverlay(w, call, csvData, visible) ==
    spainDateCounted(overlayLoaded(w, csvData, visible), call)

\* part_005 1201-1204: requestAnimationFrame resolved.
spainDateFrame(w, call) ==
    spainDateFailed(w, call, getObservationFeatureCount(w) > 0)

\* part_005 1047-1170: the 'load' handler; with an observations file it
\* calls loadObservationOverlay and does not await it, and so does every
\* listener loadObservationOverlay left on the map.
RECURSIVE OverlaysStarted(_, _)
OverlaysStarted(w, n) ==
    LET stub == [op |-> "overlay", pc |-> "start", outer |-> FALSE,
                 aborted |-> FALSE, region |-> "spain"]
        r == loadObservationOverlay(w, stub)
    IN  IF n = 0 THEN Res(w, stub)
        ELSE LET rest == OverlaysStarted(r.w, n - 1)
             IN  [rest EXCEPT !.spawn =
                     (IF r.next.pc = "done" THEN <<>> ELSE <<r.next>>) \o @]

mapboxLoadDate(w, id) ==
    LET w1 == mapboxLoad(w, id)
        n == w.mb[id].reload + (IF env.observationsUrl THEN 1 ELSE 0)
        r == OverlaysStarted([w1 EXCEPT !.mb = [@ EXCEPT ![id] =
                                                   [@ EXCEPT !.reload = 0]]], n)
    IN  [r EXCEPT !.next = [op |-> "mapboxLoad", pc |-> "done", id |-> id],
                  !.seg = [op |-> "mapboxLoad", pc |-> "done", id |-> id]]

(***************************************************************************)
(* What the network, the decoders and the user may deliver.                *)
(***************************************************************************)
Today == [startDate |-> 1, endDate |-> 1]
Ranges == {[startDate |-> a, endDate |-> b] : a \in 1..MaxDays, b \in 1..MaxDays}

RegionKeys == {"spain", "barcelona"} \cup ComingSoon

FetchOutcomes == {"ok", "http404", "rejected"}
Responses(n) == [1..n -> FetchOutcomes]

\* Day payloads of MosquitoAlertES: one row per unit, a unit listed twice,
\* rows without value or without code, and the empty payload.
Payloads ==
    { <<Row("08019", 10)>>,
      <<Row("08019", 20), Row("28079", 30)>>,
      <<Row("28079", 5), Row("08019", 40), Row("08019", 10)>>,
      <<[NATCODE |-> "28079"], Row("08019", 0)>>,
      <<[ma_prob_mean |-> 7]>>,
      <<>> }

NotJson == [ok |-> FALSE, rows |-> <<>>]
Bodies == {[ok |-> TRUE, rows |-> r] : r \in Payloads} \cup {NotJson}
SomeBodies == {[ok |-> TRUE, rows |-> <<Row("08019", 10)>>],
               [ok |-> TRUE, rows |-> <<>>], NotJson}

NotGeoTIFF == [ok |-> FALSE, raster |-> NullRaster]
Decoded ==
    {[ok |-> TRUE, raster |-> MkGrid(sh, pat, 9)] :
        sh \in {<<1, 1, 2>>, <<1, 1, 1>>}, pat \in {<<0, 1>>, <<9, NullPx>>}}
      \cup {NotGeoTIFF}
SomeDecoded == {[ok |-> TRUE, raster |-> MkGrid(<<1, 1, 1>>, <<1, 9>>, 9)], NotGeoTIFF}

\* What Math.random() returns over the 48 calls of one sample series.
Randoms == {[k \in 1..48 |-> 0], [k \in 1..48 |-> 99], [k \in 1..48 |-> (37 * k) % 100]}

ObservationTags == {"some", "none"}
Overlays == {ObservationsOf("some"), ObservationsOf("other")}

(***************************************************************************)
(* Actions: one per handler segment.                                       *)
(***************************************************************************)
NoSegment == [op |-> "none", pc |-> "done"]

\* The suspended invocations after call i ran the segment res (i = 0: the
\* segment started a new invocation).
Pending(res, i) ==
    LET cont == IF res.next.pc = "done" THEN <<>> ELSE <<res.next>>
    IN  IF i = 0 THEN calls \o cont \o res.spawn
        ELSE SubSeq(calls, 1, i - 1) \o cont \o SubSeq(calls, i + 1, Len(calls))
               \o res.spawn

Apply(res, i) ==
    /\ Commit(res.w)
    /\ calls' = Pending(res, i)
    /\ last' = res.seg
    /\ UNCHANGED <<env, grids, averaged, timezone, evaluated, visualization>>

Continue(res, i) ==
    /\ Apply(AfterLoader(res), i)
    /\ UNCHANGED <<nStarted, rangeListener>>

\* A handler that suspends nowhere and starts no invocation.
Idle ==
    UNCHANGED <<calls, nStarted, rangeListener, env, grids, averaged, timezone,
                evaluated, visualization>>

At(i, op, pc) == calls[i].op = op /\ calls[i].pc = pc

\* app.js 213: a region is chosen in the navigation.
ShowRegion(inputs) ==
    /\ nStarted < MaxCalls
    /\ \E regionKey \in RegionKeys : \E dateInput \in inputs :
          /\ Apply(showRegion(World, regionKey, dateInput), 0)
          /\ rangeListener' = IF regionKey \in ComingSoon THEN rangeListener
                               ELSE regionKey
    /\ nStarted' = nStarted + 1

\* app.js 345-346: a date picker changed.
RefreshForRange(inputs) ==
    /\ nStarted < MaxCalls
    /\ rangeListener # "none"
    /\ \E dateInput \in inputs :
          Apply(refreshForRange(World, rangeListener, dateInput), 0)
    /\ nStarted' = nStarted + 1
    /\ UNCHANGED rangeListener

\* app.js 213: a region with a date picker is opened on today's date.
OpenRegion ==
    /\ nStarted = 0
    /\ \E regionKey \in {"spain", "barcelona"} :
          /\ Apply(showRegion(World, regionKey, Today), 0)
          /\ rangeListener' = regionKey
    /\ nStarted' = nStarted + 1

\* app.js 345-346: the k-th change of the date picker selects day k + 1.
SelectedDay(k) == [startDate |-> k + 1, endDate |-> k + 1]

ChangeDate ==
    /\ nStarted \in 1..MaxSelections
    /\ rangeListener # "none"
    /\ Apply(refreshForRange(World, rangeListener, SelectedDay(nStarted)), 0)
    /\ nStarted' = nStarted + 1
    /\ UNCHANGED rangeListener

LoadRegion ==
    /\ nStarted < MaxCalls
    /\ \E regionKey \in ComingSoon : Apply(loadRegion(World, regionKey, FALSE), 0)
    /\ nStarted' = nStarted + 1
    /\ UNCHANGED rangeListener

InitMap ==
    /\ Commit(initMap(World))
    /\ last' = [op |-> "initMap", pc |-> "done"]
    /\ Idle

Destroy ==
    /\ Commit(destroy(World))
    /\ last' = [op |-> "destroy", pc |-> "done"]
    /\ Idle

AddObservationLayer ==
    /\ mapManager.mbMap # NoId /\ ~mapboxMaps[mapManager.mbMap].loaded
          => Len(mapboxMaps[mapManager.mbMap].once) < MaxDeferred
    /\ \E geojsonData \in Overlays : \E visible \in BOOLEAN :
          Commit(addObservationLayer([World EXCEPT !.obsCall = geojsonData],
                                     geojsonData, visible))
    /\ last' = [op |-> "addObservationLayer", pc |-> "done"]
    /\ Idle

SpainSettled ==
    \E i \in DOMAIN calls :
        /\ At(i, "spain", "fetch")
        /\ \E responses \in Responses(Len(calls[i].dates)) :
              Continue(spainSettled(World, calls[i], responses), i)

SpainJson(bodies) ==
    \E i \in DOMAIN calls :
        /\ At(i, "spain", "json")
        /\ \E body \in bodies : Continue(spainJson(World, calls[i], body), i)

BcnFetched ==
    \E i \in DOMAIN calls :
        /\ At(i, "barcelona", "fetch")
        /\ \E outcome \in FetchOutcomes :
              Continue(bcnFetched(World, calls[i], outcome), i)

BcnDecoded(decoded) ==
    \E i \in DOMAIN calls :
        /\ At(i, "barcelona", "decode")
        /\ \E result \in decoded : Continue(bcnDecoded(World, calls[i], result), i)

RegionGeoJSON ==
    \E i \in DOMAIN calls :
        /\ At(i, "loadRegion", "geojson")
        /\ \E outcome \in {"ok", "failed"} :
              Continue(regionGeoJSON(World, calls[i], outcome), i)

RegionGeoTIFF ==
    \E i \in DOMAIN calls :
        /\ At(i, "loadRegion", "geotiff")
        /\ \E outcome \in {"ok", "failed"} :
              Continue(regionGeoTIFF(World, calls[i], outcome), i)

RegionCsv ==
    \E i \in DOMAIN calls :
        /\ At(i, "updateStats", "csv")
        /\ \E outcome \in {"rows", "empty", "failed"} : \E random \in Randoms :
              Continue(regionCsv(World, calls[i], outcome, random), i)

ObservationsLoaded ==
    \E i \in DOMAIN calls :
        /\ At(i, "observations", "fetch")
        /\ \E tag \in ObservationTags :
              Continue(observationsLoaded(World, calls[i], tag), i)

\* The 'load' event of a live Mapbox map.
MapboxLoad ==
    \E id \in DOMAIN mapboxMaps :
        /\ ~mapboxMaps[id].loaded
        /\ Commit(mapboxLoad(World, id))
        /\ last' = [op |-> "mapboxLoad", pc |-> "done", id |-> id]
        /\ Idle

\* app.js 174-178: the transparency slider moved.
SetLayerOpacity ==
    /\ \E opacity \in {30, 100} : Commit(setLayerOpacity(World, opacity))
    /\ last' = [op |-> "setLayerOpacity", pc |-> "done"]
    /\ Idle

\* app.js 137-166: a layer checkbox changed.
ToggleLayer ==
    /\ \E layerName \in {"risk", "observations", "range", "temperature"} :
       \E visible \in BOOLEAN :
          LET r == toggleLayer(World, layerName, visible)
          IN  /\ Commit(r.w)
              /\ last' = [op |-> "toggleLayer", pc |-> "done",
                          layerName |-> layerName, raised |-> r.raised]
    /\ Idle

\* A range loader called on its own, one run after the other.
LoadSpain ==
    /\ nStarted < MaxRuns
    /\ calls = <<>>
    /\ \E dateInput \in Ranges : Apply(spainStart(World, dateInput, FALSE), 0)
    /\ nStarted' = nStarted + 1
    /\ UNCHANGED rangeListener

LoadBarcelona ==
    /\ nStarted < MaxRuns
    /\ calls = <<>>
    /\ \E dateInput \in Ranges : Apply(bcnStart(World, dateInput, FALSE), 0)
    /\ nStarted' = nStarted + 1
    /\ UNCHANGED rangeListener

\* part_005 759-776: the change listener of the date picker calls the loader;
\* nothing keeps a run from starting while another is suspended.
LoadSpainDate ==
    /\ nStarted < MaxRuns
    /\ \E date \in 1..MaxDays : Apply(spainDateStart(World, date), 0)
    /\ nStarted' = nStarted + 1
    /\ UNCHANGED rangeListener

\* part_005 952-972: the loader called with the 1km grid model selected.
LoadSpainGrid ==
    /\ nStarted < MaxRuns
    /\ \E date \in 1..MaxDays : Apply(spainGridStart(World, date), 0)
    /\ nStarted' = nStarted + 1
    /\ UNCHANGED rangeListener

SpainGridFetched ==
    /\ \E i \in DOMAIN calls :
          /\ At(i, "spainGrid", "fetch")
          /\ \E outcome \in FetchOutcomes :
                Apply(spainGridFetched(World, calls[i], outcome), i)
    /\ UNCHANGED <<nStarted, rangeListener>>

SpainGridDecoded ==
    /\ \E i \in DOMAIN calls :
          /\ At(i, "spainGrid", "decode")
          /\ \E result \in SomeDecoded :
                Apply(spainGridDecoded(World, calls[i], result), i)
    /\ UNCHANGED <<nStarted, rangeListener>>

SpainDateFetched ==
    /\ \E i \in DOMAIN calls :
          /\ At(i, "spainDate", "fetch")
          /\ \E outcome \in FetchOutcomes :
                Apply(spainDateFetched(World, calls[i], outcome), i)
    /\ UNCHANGED <<nStarted, rangeListener>>

SpainDateJson ==
    /\ \E i \in DOMAIN calls :
          /\ At(i, "spainDate", "json")
          /\ \E body \in SomeBodies :
                Apply(spainDateJson(World, calls[i], body), i)
    /\ UNCHANGED <<nStarted, rangeListener>>

\* The file of observations as loadCSV returns it: from the cache, or as the
\* fetch settled.
ObservationFiles(url) ==
    IF Cached(World, url) THEN {[w |-> World, data |-> cache[url]]}
    ELSE {loadCSV(World, url, outcome, [k \in 1..48 |-> 0]) :
             outcome \in {"points", "rows", "empty", "failed"}}

SpainDateOverlay ==
    /\ \E i \in DOMAIN calls :
          /\ At(i, "spainDate", "csv")
          /\ \E file \in ObservationFiles(Url("csv", "observations")) :
             \E visible \in BOOLEAN :
                Apply(spainDateOverlay(file.w, calls[i], file.data, visible), i)
    /\ UNCHANGED <<nStarted, rangeListener>>

SpainDateFrame ==
    /\ \E i \in DOMAIN calls :
          /\ At(i, "spainDate", "frame")
          /\ Apply(spainDateFrame(World, calls[i]), i)
    /\ UNCHANGED <<nStarted, rangeListener>>

\* The loadCSV of an overlay that the 'load' handler started has settled.
OverlayLoaded ==
    /\ \E i \in DOMAIN calls :
          /\ At(i, "overlay", "csv")
          /\ \E file \in ObservationFiles(Url("csv", "observations")) :
             \E visible \in BOOLEAN :
                Apply(Res(overlayLoaded(file.w, file.data, visible),
                          Return(calls[i])), i)
    /\ UNCHANGED <<nStarted, rangeListener>>

MapboxLoadDate ==
    /\ \E id \in DOMAIN mapboxMaps :
          /\ ~mapboxMaps[id].loaded
          /\ Apply(mapboxLoadDate(World, id), 0)
    /\ UNCHANGED <<nStarted, rangeListener>>

(***************************************************************************)
(* Specifications.                                                         *)
(***************************************************************************)
Libraries == [mapboxgl : BOOLEAN, GeoRasterLayer : BOOLEAN, parseGeoraster : BOOLEAN]

MapInit ==
    /\ mapManager = NewMapManager
    /\ leafletMaps = <<>>
    /\ mapboxMaps = <<>>
    /\ mapStats = Stats("initial", "", NoRange)
    /\ cache = <<>>
    /\ env \in Libraries
    /\ observationCall = NoData
    /\ rangeListener = "none"
    /\ calls = <<>>
    /\ nStarted = 0
    /\ last = NoSegment

NoCall == [fn |-> "none"]

\* The map pipeline runs in a zone without clock change; the date helpers are
\* evaluated in every zone under SpecFn.
FnIdle == timezone = UTC /\ evaluated = NoCall

Init == MapInit /\ AvgInit /\ FnIdle /\ VizInit

\* Selections, date changes and MapManager calls in any interleaving.
Next ==
    \/ ShowRegion({Today})
    \/ RefreshForRange({Today})
    \/ LoadRegion
    \/ InitMap
    \/ Destroy
    \/ AddObservationLayer
    \/ SpainSettled
    \/ SpainJson(SomeBodies)
    \/ BcnFetched
    \/ BcnDecoded(SomeDecoded)
    \/ RegionGeoJSON
    \/ RegionGeoTIFF
    \/ RegionCsv
    \/ ObservationsLoaded
    \/ MapboxLoad

Spec == Init /\ [][Next]_vars

\* The range loaders run one after the other over every range and payload.
NextSeq ==
    \/ LoadSpain
    \/ LoadBarcelona
    \/ SpainSettled
    \/ SpainJson(Bodies)
    \/ BcnFetched
    \/ BcnDecoded(Decoded)
    \/ MapboxLoad

SpecSeq == Init /\ [][NextSeq]_vars

\* averageGeorasters over every list of georasters.
NextAvg == PushRaster /\ UNCHANGED <<mapVars, fnVars>>

SpecAvg == Init /\ [][NextAvg]_vars

\* averageGeorasters over lists whose first georaster may lack something.
NextShape ==
    \/ PushRaster /\ UNCHANGED <<mapVars, fnVars>>
    \/ PushMalformed /\ UNCHANGED <<mapVars, fnVars>>

SpecShape == Init /\ [][NextShape]_vars

\* The transparency slider and the layer checkboxes between and during loads
\* of every kind.
NextOpacity ==
    \/ SetLayerOpacity
    \/ ToggleLayer
    \/ LoadRegion
    \/ LoadSpain
    \/ LoadBarcelona
    \/ SpainSettled
    \/ SpainJson(SomeBodies)
    \/ BcnFetched
    \/ BcnDecoded(SomeDecoded)
    \/ RegionGeoJSON
    \/ RegionGeoTIFF
    \/ RegionCsv
    \/ MapboxLoad

SpecOpacity == Init /\ [][NextOpacity]_vars

\* Regions are selected and loaded one over the other; nothing but the
\* loaders mounts or removes a map.
NextLoads ==
    \/ ShowRegion({Today})
    \/ RefreshForRange({Today})
    \/ LoadRegion
    \/ SpainSettled
    \/ SpainJson(SomeBodies)
    \/ BcnFetched
    \/ BcnDecoded(SomeDecoded)
    \/ RegionGeoJSON
    \/ RegionGeoTIFF
    \/ RegionCsv
    \/ ObservationsLoaded
    \/ MapboxLoad

SpecLoads == Init /\ [][NextLoads]_vars

\* A region is opened and its date changed, the responses of the selections
\* arriving in any order.
NextRange ==
    \/ OpenRegion
    \/ ChangeDate
    \/ SpainSettled
    \/ SpainJson(SomeBodies)
    \/ BcnFetched
    \/ BcnDecoded(SomeDecoded)
    \/ ObservationsLoaded
    \/ MapboxLoad

SpecRange == Init /\ [][NextRange]_vars

\* A region is opened and its date changed while the first load may still
\* be running.
NextLive ==
    \/ OpenRegion
    \/ ChangeDate /\ nStarted <= MaxLiveSelections
    \/ SpainSettled
    \/ SpainJson(SomeBodies)
    \/ BcnFetched
    \/ BcnDecoded(SomeDecoded)
    \/ ObservationsLoaded
    \/ MapboxLoad

\* Every awaited promise settles and every mounted Mapbox map that is still
\* live fires its 'load' event: a continuation that can run is run by the
\* event loop.
RangeFairness ==
    /\ WF_vars(SpainSettled)
    /\ WF_vars(SpainJson(SomeBodies))
    /\ WF_vars(BcnFetched)
    /\ WF_vars(BcnDecoded(SomeDecoded))
    /\ WF_vars(ObservationsLoaded)
    /\ WF_vars(MapboxLoad)

SpecLive == Init /\ [][NextLive]_vars /\ RangeFairness

\* The single-date loader of Spain on every date change, with and without
\* Mapbox GL and with and without a file of observations in the
\* configuration.
InitDate ==
    /\ mapManager = NewMapManager
    /\ leafletMaps = <<>>
    /\ mapboxMaps = <<>>
    /\ mapStats = Stats("initial", "", NoRange)
    /\ cache = <<>>
    /\ env \in [mapboxgl : BOOLEAN, GeoRasterLayer : {TRUE}, parseGeoraster : BOOLEAN,
                 observationsUrl : BOOLEAN]
    /\ observationCall = NoData
    /\ rangeListener = "none"
    /\ calls = <<>>
    /\ nStarted = 0
    /\ last = NoSegment
    /\ AvgInit
    /\ FnIdle
    /\ VizInit

NextDate ==
    \/ InitMap
    \/ LoadSpainDate
    \/ SpainDateFetched
    \/ SpainDateJson
    \/ SpainDateOverlay
    \/ SpainDateFrame
    \/ OverlayLoaded
    \/ MapboxLoadDate
    \/ LoadSpainGrid
    \/ SpainGridFetched
    \/ SpainGridDecoded

SpecDate == InitDate /\ [][NextDate]_vars

(***************************************************************************)
(* The helper functions, each called on every argument of a bounded set.   *)
(***************************************************************************)
\* UTC, Europe/Madrid (UTC+1; UTC+2 from 2024-03-31 01:00Z, day 91, to
\* 2024-10-27 01:00Z, day 301) and America/New_York (UTC-5; UTC-4 from
\* 2024-03-10 07:00Z, day 70, to 2024-11-03 06:00Z, day 308).
TimeZones ==
    { UTC,
      [std |-> 1, dst |-> 2, from |-> 24 * 91 + 1, to |-> 24 * 301 + 1],
      [std |-> 0 - 5, dst |-> 0 - 4, from |-> 24 * 70 + 7, to |-> 24 * 308 + 6] }

\* Days around a clock change of Europe/Madrid: 2024-03-30 (day 90) or
\* 2024-10-26 (day 300) and the days after it.
PickerDays(first) == {first + k : k \in 0..DaySpan}

DateInputs ==
    {NoInput} \cup UNION {
        {StringInput(d) : d \in PickerDays(first)}
          \cup {[startDate |-> a, endDate |-> b] :
                   a \in PickerDays(first) \cup {NoDate},
                   b \in PickerDays(first) \cup {NoDate}} : first \in {90, 300}}

Call(fn, arg, value) == [fn |-> fn, arg |-> arg, returned |-> value]

NormalizeDateRange ==
    /\ evaluated = NoCall
    /\ \E dateInput \in DateInputs :
        /\ evaluated' = Call("normalizeDateRange", dateInput,
                             normalizeDateRange(dateInput))
        /\ UNCHANGED <<mapVars, avgVars, timezone, visualization>>

BuildDateArray ==
    /\ evaluated = NoCall
    /\ \E range \in DateInputs :
        /\ evaluated' = Call("buildDateArray", range, buildDateArray(range))
        /\ UNCHANGED <<mapVars, avgVars, timezone, visualization>>

\* Points of the downloaded collection, the species of the selector and the
\* ranges of the pickers (app.js 405-410; no picker: today).
Points ==
    [species : {NoText, <<"Aedes", "Albopictus">>, <<"anopheles", "gambiae">>},
     taxon : {NoText, <<"Culex", "pipiens">>},
     event_date : {NoStamp, NotADate, Stamp(2, 0), Stamp(2, 12)},
     date : {NoStamp, Stamp(1, 0)}]
Collections == UNION {[1..n -> Points] : n \in 0..MaxPoints}

FilterObservations ==
    /\ evaluated = NoCall
    /\ \E features \in Collections :
       \E speciesKey \in {"ae-albopictus", "culex", "anopheles"} :
       \E dateRange \in {NoInput, [startDate |-> 1, endDate |-> 2],
                          [startDate |-> 2, endDate |-> 2],
                          [startDate |-> 3, endDate |-> 3]} :
        /\ evaluated' = Call("filteredFeatures",
                             [features |-> features, speciesKey |-> speciesKey,
                              dateRange |-> dateRange],
                             filteredFeatures(features, speciesKey, dateRange))
        /\ UNCHANGED <<mapVars, avgVars, timezone, visualization>>

\* The rows of a downloaded observations CSV (part_005 901).
OverlayRows ==
    [lat : {Absent, Text(41), Word}, lon : {Absent, Text(2), Word}, presence : {TRUE}]

OverlayFeatures ==
    /\ evaluated = NoCall
    /\ \E csvData \in UNION {[1..n -> OverlayRows] : n \in 0..MaxPoints} :
        /\ evaluated' = Call("overlayFeatures", csvData, overlayFeatures(csvData))
        /\ UNCHANGED <<mapVars, avgVars, timezone, visualization>>

\* The features of a downloaded GeoJSON collection, with their geometry: a
\* pair of numbers, a pair with a null, or no geometry at all.
LocatedPoints ==
    [species : {<<"Aedes", "Albopictus">>}, taxon : {NoText},
     event_date : {NoStamp, Stamp(2, 0)}, date : {NoStamp},
     coordinates : {Absent, [lon |-> Number(2), lat |-> Number(41)],
                    [lon |-> Absent, lat |-> Number(41)]}]

\* app.js 869-900: the collection loadMosquitoObservations passes to
\* mapManager.setObservationsData.
ObservationCollection ==
    /\ evaluated = NoCall
    /\ \E features \in UNION {[1..n -> LocatedPoints] : n \in 0..MaxPoints} :
        /\ evaluated' = Call("collection", features,
                             filteredFeatures(loadObservations(features), "ae-albopictus",
                                              [startDate |-> 2, endDate |-> 2]))
        /\ UNCHANGED <<mapVars, avgVars, timezone, visualization>>

\* The helpers read none of the optional libraries.
InitFn ==
    /\ MapInit
    /\ env = [mapboxgl |-> TRUE, GeoRasterLayer |-> TRUE, parseGeoraster |-> TRUE]
    /\ AvgInit
    /\ timezone \in TimeZones
    /\ evaluated = NoCall
    /\ VizInit

\* DataLoader.loadCSV on a URL that is not cached.
LoadCSV ==
    /\ evaluated = NoCall
    /\ \E region \in ComingSoon :
       \E outcome \in {"rows", "empty", "rejected", "http404", "unreadable"} :
       \E random \in Randoms :
          LET r == loadCSV(World, Url("csv", region), outcome, random)
          IN  /\ cache' = r.w.cache
              /\ evaluated' = Call("loadCSV", [url |-> Url("csv", region),
                                               outcome |-> outcome], r.data)
    /\ UNCHANGED <<mapManager, leafletMaps, mapboxMaps, mapStats, env,
                   observationCall, rangeListener, calls, nStarted, last>>
    /\ UNCHANGED <<avgVars, timezone, visualization>>

\* How the fetch of each kind of file can end.
LoadOutcomes(kind) ==
    IF kind = "csv" THEN {"rows", "empty", "rejected", "http404", "unreadable"}
    ELSE {"ok", "failed"}

Failures == {"rejected", "http404", "unreadable", "failed"}

\* What a load of `url` whose fetch ends with `outcome` does and returns.
Loaded(url, outcome, random) ==
    IF url[1] = "csv" THEN loadCSV(World, url, outcome, random)
    ELSE IF url[1] = "geojson" THEN loadGeoJSON(World, url, outcome)
    ELSE loadGeoTIFF(World, url, outcome)

\* mapManager.js 758-853: one call of loadCSV, loadGeoJSON or loadGeoTIFF.
\* A URL that is cached is answered from the cache without a fetch
\* (759-761, 806-808, 830-832).
Load ==
    /\ \E kind \in {"csv", "geojson", "geotiff"} : \E region \in ComingSoon :
          LET url == Url(kind, region)
          IN  IF Cached(World, url)
              THEN /\ cache' = cache
                   /\ evaluated' = Call("load", [url |-> url, outcome |-> "cached"],
                                         cache[url])
              ELSE \E outcome \in LoadOutcomes(kind) : \E random \in Randoms :
                      LET r == Loaded(url, outcome, random)
                      IN  /\ cache' = r.w.cache
                          /\ evaluated' = Call("load", [url |-> url,
                                                       outcome |-> outcome], r.data)
    /\ UNCHANGED <<mapManager, leafletMaps, mapboxMaps, mapStats, env,
                   observationCall, rangeListener, calls, nStarted, last>>
    /\ UNCHANGED <<avgVars, timezone, visualization>>

\* The responses with status 2xx DataLoader.getCSVText is given.
CSVResponses ==
    [gzip : BOOLEAN, stream : {"unavailable", "text", "failed"},
     buffer : {"read", "failed"}, pako : {"unavailable", "text", "failed"},
     plain : {"text", "failed"}]

\* part_006 12-30: DataLoader.loadCSV on a URL that is not cached, the
\* response being ok.
GetCSVText ==
    /\ evaluated = NoCall
    /\ \E region \in ComingSoon, response \in CSVResponses, random \in Randoms :
          LET read == getCSVText(response)
              r == loadCSV(World, Url("csv", region), read.text, random)
          IN  /\ cache' = r.w.cache
              /\ evaluated' = Call("getCSVText",
                                   [url |-> Url("csv", region), response |-> response],
                                   [tried |-> read.tried, data |-> r.data])
    /\ UNCHANGED <<mapManager, leafletMaps, mapboxMaps, mapStats, env,
                   observationCall, rangeListener, calls, nStarted, last>>
    /\ UNCHANGED <<avgVars, timezone, visualization>>

\* The aggregated rows of the municipalities and the pixels of an averaged
\* raster: a missing value, a negative one, zero, values below and above
\* maxVRI, and a mean that is no integer.
ScaleValues == {Num(NullPx), Num(-5), Num(0), Num(10), Num(80), Quot(15, 2)}

MatchExpression ==
    /\ evaluated = NoCall
    /\ \E values \in UNION {[1..n -> ScaleValues] : n \in 0..MaxPoints} :
          LET aggregatedArray ==
                 [k \in DOMAIN values |-> [NATCODE |-> k, ma_prob_mean |-> values[k]]]
          IN  evaluated' = Call("matchExpression", aggregatedArray,
                                matchExpression(aggregatedArray))
    /\ UNCHANGED <<mapVars, avgVars, timezone, visualization>>

PixelScaled ==
    /\ evaluated = NoCall
    /\ \E pixelValue \in ScaleValues :
          evaluated' = Call("pixelScaled", pixelValue, pixelScaled(pixelValue))
    /\ UNCHANGED <<mapVars, avgVars, timezone, visualization>>

\* Records of a JSON or CSV time series.
FieldValues == {Absent, Number(0), Number(MaxValue), Text(0)}

Items ==
    {[risk_level |-> f[1], vri |-> f[2], risk |-> f[3], value |-> f[4],
      ma_prob_mean |-> f[5], ma_prob_max |-> f[6]] :
        f \in [DOMAIN RiskAliases -> FieldValues]}

RiskValue ==
    /\ evaluated = NoCall
    /\ \E item \in Items :
          evaluated' = Call("riskValue", item, riskValue(item))
    /\ UNCHANGED <<mapVars, avgVars, timezone, visualization>>

NextFn ==
    \/ RiskValue
    \/ NormalizeDateRange
    \/ BuildDateArray
    \/ FilterObservations
    \/ LoadCSV
    \/ OverlayFeatures
    \/ ObservationCollection
    \/ GetCSVText
    \/ MatchExpression
    \/ PixelScaled

SpecFn == InitFn /\ [][NextFn]_vars

\* The DataLoader is called again and again, each call after the other has
\* returned.
NextLoader == Load

SpecLoader == Init /\ [][NextLoader]_vars

\* The chart is created, replaced and destroyed while calls of
\* createRiskChart wait for their data.
VizIdle == UNCHANGED <<mapVars, avgVars, timezone, evaluated>>

CreateRiskChart ==
    /\ visualization.started < MaxChartCalls
    /\ \E regionKey \in RegionKeys : \E canvas \in BOOLEAN : \E perUnit \in BOOLEAN :
          visualization' = createRiskChart(visualization, regionKey, canvas, perUnit)
    /\ VizIdle

CreateChartResumed ==
    /\ \E i \in DOMAIN visualization.pending :
          visualization' = createChartResumed(visualization, i)
    /\ VizIdle

CreateBarChart ==
    /\ visualization.started < MaxChartCalls
    /\ \E canvas \in BOOLEAN :
          visualization' = createBarChart(visualization, canvas)
    /\ VizIdle

VisualizationDestroy ==
    /\ visualization' = visualizationDestroy(visualization)
    /\ VizIdle

NextCharts ==
    \/ CreateRiskChart
    \/ CreateChartResumed
    \/ CreateBarChart
    \/ VisualizationDestroy

SpecCharts == Init /\ [][NextCharts]_vars

(***************************************************************************)
(* Properties of averageGeorasters, checked under SpecAvg.                 *)
(***************************************************************************)
Positions ==
    {<<b, y, x>> : b \in 1..Len(grids[1].values), y \in 1..grids[1].height,
                   x \in 1..grids[1].width}

\* A value that is there and is not the sentinel of the first grid.
Present(val) ==
    /\ val # NullPx
    /\ grids[1].noDataValue = Undefined \/ val # grids[1].noDataValue

\* The grids with the first grid's width and height and at least its bands.
Summed(k) ==
    /\ Len(grids[k].values) >= Len(grids[1].values)
    /\ grids[k].height = grids[1].height
    /\ grids[k].width = grids[1].width

Contributors(p) ==
    {k \in 1..Len(grids) : Summed(k) /\ Present(grids[k].values[p[1]][p[2]][p[3]])}

RECURSIVE SumAt(_, _)
SumAt(ks, p) ==
    IF ks = {} THEN 0
    ELSE LET k == CHOOSE j \in ks : TRUE
         IN  grids[k].values[p[1]][p[2]][p[3]] + SumAt(ks \ {k}, p)

IsMeanAt(p) ==
    LET out == averaged.values[p[1]][p[2]][p[3]]
        ks == Contributors(p)
    IN  /\ out.den > 0
        /\ out.num * Cardinality(ks) = SumAt(ks, p) * out.den

SentinelOf(grid) ==
    IF grid.noDataValue = Undefined THEN Num(NullPx) ELSE Num(grid.noDataValue)

SameGrid(g) ==
    /\ g.width = grids[1].width
    /\ g.height = grids[1].height
    /\ Len(g.values) = Len(grids[1].values)

\* C6: a grid whose width, height or band count differs from the first
\* grid's contributes nothing: the result is the one obtained without it.
MismatchedGridSkipped ==
    grids # <<>> =>
        averaged = averageGeorasters(SelectSeq(grids, LAMBDA g : SameGrid(g)))

(***************************************************************************)
(* Properties of the range loaders, checked under SpecSeq on the segment   *)
(* that ran last.                                                          *)
(***************************************************************************)
SpainDone == last.op = "spain" /\ last.pc = "done"
BcnDone == last.op = "barcelona" /\ last.pc = "done"

HasValue(row) ==
    /\ "NATCODE" \in DOMAIN row
    /\ "ma_prob_mean" \in DOMAIN row
    /\ row.NATCODE # ""

RECURSIVE Flat(_)
Flat(allRows) ==
    IF allRows = <<>> THEN <<>> ELSE Head(allRows).rows \o Flat(Tail(allRows))

\* The rows of unit `code` that carry a value, over the days that were read.
RowsOf(code) ==
    SelectSeq(Flat(last.allRows), LAMBDA row : HasValue(row) /\ row.NATCODE = code)

SumOf(code) ==
    SeqSum([k \in 1..Len(RowsOf(code)) |-> RowsOf(code)[k].ma_prob_mean])

\* The days that were read in which unit `code` has a row with a value.
DaysOf(code) ==
    {d \in 1..Len(last.allRows) :
        \E k \in 1..Len(last.allRows[d].rows) :
            /\ HasValue(last.allRows[d].rows[k])
            /\ last.allRows[d].rows[k].NATCODE = code}

UnitCodes ==
    {Flat(last.allRows)[k].NATCODE :
        k \in {j \in 1..Len(Flat(last.allRows)) : HasValue(Flat(last.allRows)[j])}}

\* The result lists exactly the units that have a row with a value, once each.
UnitsListed ==
    /\ {last.aggregatedArray[k].NATCODE : k \in 1..Len(last.aggregatedArray)} = UnitCodes
    /\ Len(last.aggregatedArray) = Cardinality(UnitCodes)

\* C7 (as amended): the value of a unit is the sum of its values over the
\* days that were read divided by the number of its rows that carry a
\* value, which is the number of days it appears in when every payload lists
\* it once; a unit without such a row is not in the result.
UnitMeanOverRows ==
    SpainDone /\ ~last.aborted =>
        /\ UnitsListed
        /\ \A k \in 1..Len(last.aggregatedArray) :
              LET unit == last.aggregatedArray[k]
              IN  /\ unit.ma_prob_mean.den > 0
                  /\ unit.ma_prob_mean.num * Len(RowsOf(unit.NATCODE))
                        = SumOf(unit.NATCODE) * unit.ma_prob_mean.den

\* Two days were read, a unit is in both and another in one of them only.
UnitMeanWitness ==
    /\ SpainDone /\ ~last.aborted
    /\ Len(last.allRows) = 2
    /\ \E c \in UnitCodes : Cardinality(DaysOf(c)) = 2
    /\ \E c \in UnitCodes : Cardinality(DaysOf(c)) = 1

\* C7 as stated: the value of a unit is the sum of its values over the days
\* it appears in divided by the number of those days.
UnitMeanOverDays ==
    SpainDone /\ ~last.aborted =>
        /\ UnitsListed
        /\ \A k \in 1..Len(last.aggregatedArray) :
              LET unit == last.aggregatedArray[k]
              IN  /\ unit.ma_prob_mean.den > 0
                  /\ unit.ma_prob_mean.num * Cardinality(DaysOf(unit.NATCODE))
                        = SumOf(unit.NATCODE) * unit.ma_prob_mean.den

RECURSIVE Succeeded(_, _)
Succeeded(dates, responses) ==
    IF dates = <<>> THEN <<>>
    ELSE (IF Head(responses) = "ok" THEN <<Head(dates)>> ELSE <<>>)
           \o Succeeded(Tail(dates), Tail(responses))

\* C8: a day whose fetch rejects or returns a non-2xx status is left out
\* and the range goes on: the loader reads exactly the days that succeeded,
\* in order, and aggregates them; it gives up only on the body of a day
\* that succeeded.
FailedDaysDiscarded ==
    SpainDone =>
        IF last.aborted THEN last.responses[last.i] = "ok"
        ELSE /\ [k \in 1..Len(last.allRows) |-> last.allRows[k].date]
                   = Succeeded(last.dates, last.responses)
             /\ last.aggregatedArray = AggregateRows(last.allRows)

\* The first day failed, the second was read and aggregated.
FailedDaysWitness ==
    /\ SpainDone /\ ~last.aborted
    /\ Len(last.dates) = 2
    /\ last.responses[1] # "ok"
    /\ last.responses[2] = "ok"
    /\ last.aggregatedArray # <<>>

\* C9: every day of the range is fetched whatever happened to the days
\* before it (rejection, non-2xx status, decode error), and the days that
\* were decoded are averaged: one failing day does not abort the range.
BcnFailingDayDiscarded ==
    BcnDone /\ env.parseGeoraster =>
        /\ Len(last.outcomes) = Len(last.dates)
        /\ last.georasters # <<>> /\ env.GeoRasterLayer => ~last.aborted

AllFailed(call) ==
    /\ call.pc = "done"
    /\ \/ /\ call.op = "spain"
          /\ call.responses # <<>>
          /\ \A k \in 1..Len(call.responses) : call.responses[k] # "ok"
       \/ /\ call.op = "barcelona"
          /\ call.outcomes # <<>>
          /\ \A k \in 1..Len(call.outcomes) : call.outcomes[k] # "ok"

NoNewLayer ==
    /\ mapboxMaps' = mapboxMaps
    /\ \A m \in DOMAIN leafletMaps' :
          /\ m \in DOMAIN leafletMaps
          /\ leafletMaps'[m].layers \subseteq leafletMaps[m].layers

\* C10: the segment that ends a range loader none of whose days loaded
\* leaves an error or no-data message in the stats panel, mounts no Mapbox
\* map (so no municipality fill layer follows) and adds no layer to a
\* Leaflet map.
AllDaysFailedNoLayer ==
    [][AllFailed(last') =>
          /\ mapStats'.kind \in {"error", "nodata"}
          /\ NoNewLayer]_vars

\* The second run fails on every day of a two-day range while the layers
\* of the first run are on the map.
AllDaysFailedWitness ==
    /\ AllFailed(last)
    /\ Len(last.dates) = 2
    /\ nStarted = 2
    /\ \/ mapboxMaps # <<>>
       \/ \E m \in DOMAIN leafletMaps : leafletMaps[m].layers # {}

(***************************************************************************)
(* Properties of the mounted backend and its overlays, checked under Spec. *)
(***************************************************************************)
\* C1: mapManager.map and mapManager.mbMap are never both non-null.
OneBackendMounted ==
    ~(mapManager.map # NoId /\ mapManager.mbMap # NoId)

\* The Mapbox map is mounted while a load that started on the Leaflet map
\* is suspended at a fetch.
OneBackendWitness ==
    /\ mapManager.mbMap # NoId
    /\ \E i \in DOMAIN calls : calls[i].op \in {"barcelona", "loadRegion"}

Loaders == {"spain", "barcelona", "loadRegion", "updateStats"}

\* A loader segment that goes on after an await although another region
\* was selected since the loader started.
StaleSegment ==
    /\ nStarted' = nStarted
    /\ last'.op \in Loaders
    /\ last'.region # mapManager.currentRegion

Settled == calls = <<>>

\* The mounted backend and raster layer are those of the current region.
BackendOfCurrentRegion ==
    /\ mapManager.currentRegion = "barcelona" => mapManager.mbMap = NoId
    /\ mapManager.currentRegion = "spain" /\ mapManager.map # NoId =>
          \A l \in leafletMaps[mapManager.map].layers : l.type # "georaster"

\* C2: the continuation of a load for a region that is no longer the
\* current one mounts and removes no map, attaches no layer and leaves the
\* stats panel alone, and once every request has settled the mounted
\* backend and risk layer are those of the current region.
StaleSelectionIgnored ==
    /\ [][StaleSegment =>
             /\ mapManager' = mapManager
             /\ leafletMaps' = leafletMaps
             /\ mapboxMaps' = mapboxMaps
             /\ mapStats' = mapStats]_vars
    /\ [](Settled => BackendOfCurrentRegion)

Attached(type) ==
    IF mapManager.map = NoId THEN {}
    ELSE {l \in leafletMaps[mapManager.map].layers : l.type = type}

\* C3: at most one risk GeoJSON layer and at most one raster layer are on
\* the mounted map, and each is the one recorded in mapManager.layers.
OneLayerPerName ==
    /\ Cardinality(Attached("geojson")) <= 1
    /\ Cardinality(Attached("georaster")) <= 1
    /\ \A l \in Attached("geojson") : l = mapManager.layers.risk
    /\ \A l \in Attached("georaster") : l = mapManager.layers.geotiff

\* C4: at most one observation layer is on the mounted map and it carries
\* the data of the latest addObservationLayer call.
OneObservationLayer ==
    /\ Cardinality(Attached("observations")) <= 1
    /\ \A l \in Attached("observations") :
          l = mapManager.layers.observations /\ l.data = observationCall
    /\ mapManager.mbMap # NoId
          /\ "observations-layer" \in mapboxMaps[mapManager.mbMap].layers
          => mapboxMaps[mapManager.mbMap].obsData = observationCall

\* C17: once a load has succeeded for a URL, every later load of that URL
\* returns the value it parsed, without a fetch, whatever is loaded in
\* between: the value cached for the URL stays the value of that load.
CachedValueIsKept ==
    [][\A url \in DOMAIN cache :
          url \in DOMAIN cache' /\ cache'[url] = cache[url]]_vars

(***************************************************************************)
(* Properties of the opacity, checked under SpecOpacity.                   *)
(***************************************************************************)
FillLayers ==
    IF mapManager.mbMap = NoId THEN {}
    ELSE mapboxMaps[mapManager.mbMap].layers \cap {"muni-high-res", "muni-low-res"}

\* C15: once setLayerOpacity(v) was called, every attached risk overlay of the
\* mounted backend (GeoJSON fill, GeoRaster layer, the two municipality fill
\* layers) has opacity v until the next call, overlays created later included.
OpacityOnEveryOverlay ==
    mapManager.currentOpacity # DefaultOpacity
      => /\ \A l \in Attached("geojson") \cup Attached("georaster") :
               l.opacity = mapManager.currentOpacity
         /\ "muni-high-res" \in FillLayers
               => mapboxMaps[mapManager.mbMap].fill.opacity.high
                    = mapManager.currentOpacity
         /\ "muni-low-res" \in FillLayers
               => mapboxMaps[mapManager.mbMap].fill.opacity.low
                    = mapManager.currentOpacity

\* The layers toggleLayer looks for under a name: the registry entries on a
\* mounted Leaflet map, the layers of that id on the mounted Mapbox map.
LayersNamed(layerName) ==
    LET slots == IF layerName = "risk" THEN {"risk", "geotiff"}
                 ELSE {layerName} \cap LayerKeys
        ids == IF layerName = "risk" THEN {"muni-high-res", "muni-low-res"}
               ELSE IF layerName = "observations" THEN {"observations-layer"}
               ELSE {}
    IN  (IF mapManager.map = NoId THEN {}
         ELSE {k \in slots : mapManager.layers[k] # NoLayer})
          \cup (IF mapManager.mbMap = NoId THEN {}
                ELSE ids \cap mapboxMaps[mapManager.mbMap].layers)

\* C16: toggleLayer(name, visible) for a name that has no layer on the
\* mounted backend, or with no backend mounted, does not raise and leaves
\* map, mbMap, every entry of layers, currentOpacity and currentRegion as
\* they were.
ToggleWithoutLayerIsNoOp ==
    [][last'.op = "toggleLayer" /\ last' # last /\ LayersNamed(last'.layerName) = {}
         => ~last'.raised /\ mapManager' = mapManager]_vars

ToggleWithoutLayerWitness ==
    /\ last.op = "toggleLayer"
    /\ last.layerName = "range"
    /\ ~last.raised
    /\ mapManager.map # NoId
    /\ mapManager.layers.risk # NoLayer

(***************************************************************************)
(* Properties of the helper functions, checked under SpecFn.               *)
(***************************************************************************)
Called(fn) == evaluated.fn = fn

\* The dates an argument of the date helpers names: both its dates, or its
\* only date twice.
IsObject(dateInput) == "startDate" \in DOMAIN dateInput
GivenDates(dateInput) ==
    IF DOMAIN dateInput = {"str"} THEN {dateInput.str}
    ELSE IF IsObject(dateInput)
    THEN {dateInput.startDate, dateInput.endDate} \ {NoDate}
    ELSE {}

Earliest(days) == CHOOSE d \in days : \A e \in days : d <= e
Latest(days) == CHOOSE d \in days : \A e \in days : e <= d

\* C11: normalizeDateRange of valid dates returns the same two dates in
\* ascending order (swapped when the start is after the end); a single date
\* string, or an object with only one date, yields that date as start and end.
RangeNormalized ==
    Called("normalizeDateRange") /\ GivenDates(evaluated.arg) # {}
      => /\ evaluated.returned.startDate = Earliest(GivenDates(evaluated.arg))
         /\ evaluated.returned.endDate = Latest(GivenDates(evaluated.arg))
         /\ DOMAIN evaluated.returned = {"startDate", "endDate"}

RangeSwappedWitness ==
    /\ Called("normalizeDateRange")
    /\ IsObject(evaluated.arg)
    /\ evaluated.arg.endDate # NoDate
    /\ evaluated.arg.startDate > evaluated.arg.endDate
    /\ evaluated.returned.startDate = evaluated.arg.endDate

\* C12: buildDateArray returns exactly the calendar days from the normalized
\* start to the normalized end inclusive, ascending, without duplicates or
\* gaps: as many entries as days between the two dates plus one.
DateArrayIsEveryDay ==
    Called("buildDateArray") /\ GivenDates(evaluated.arg) # {}
      => LET lo == Earliest(GivenDates(evaluated.arg))
             hi == Latest(GivenDates(evaluated.arg))
         IN  evaluated.returned = [k \in 1..(hi - lo + 1) |-> lo + k - 1]

\* What the filter is to keep: the category text of a point, the aliases of
\* a species key, and the day of a point's date.
Category(props) == speciesValue(props)
Aliases(speciesKey) ==
    IF speciesAliases(speciesKey) # <<>>
    THEN {speciesAliases(speciesKey)[k] : k \in DOMAIN speciesAliases(speciesKey)}
    ELSE { <<speciesKey>> }
CategoryMatches(props, speciesKey) ==
    /\ Category(props) # NoText
    /\ \E alias \in Aliases(speciesKey) : Includes(Lowered(Category(props)), alias)
OnDayIn(props, range) ==
    /\ dateValue(props).kind = "date"
    /\ dateValue(props).day >= range.startDate
    /\ dateValue(props).day <= range.endDate
RangeOf(dateRange) ==
    IF dateRange = NoInput THEN [startDate |-> today, endDate |-> today] ELSE dateRange

\* C13: the observation filter outputs exactly the input points, in input
\* order and unaltered, whose category is present and, lowercased, contains
\* an alias of the species key (the raw key for a key without aliases) and
\* whose date is parseable and in the range; a point without category or
\* with an unparsable date is never output.
FilterKeepsMatchingPoints ==
    Called("filteredFeatures")
      => LET arg == evaluated.arg
             Wanted(props) == /\ CategoryMatches(props, arg.speciesKey)
                              /\ OnDayIn(props, RangeOf(arg.dateRange))
         IN  evaluated.returned = SelectSeq(arg.features, Wanted)

\* C14: the filter compares dates by calendar day, both bounds inclusive: a
\* point of a matching category is output if and only if the day of its
\* timestamp, at whatever time of day, is in [startDate, endDate].
FilterComparesDays ==
    Called("filteredFeatures")
      => \A i \in DOMAIN evaluated.arg.features :
            LET props == evaluated.arg.features[i]
            IN  CategoryMatches(props, evaluated.arg.speciesKey)
                  => ( OnDayIn(props, RangeOf(evaluated.arg.dateRange))
                         <=> \E j \in DOMAIN evaluated.returned : evaluated.returned[j] = props )

\* C18: loadCSV never raises: when the fetch rejects or returns a non-2xx
\* status, or the body cannot be read, it returns exactly 12 points, one per
\* consecutive month from 2024-01-01, each with a date and numeric
\* risk_level, temperature and humidity.
SampleSeriesIsMonthly ==
    Called("loadCSV") /\ evaluated.arg.outcome \notin {"rows", "empty"}
      => /\ Len(evaluated.returned) = 12
         /\ \A i \in 1..12 :
               /\ evaluated.returned[i].date = FirstDay(i)
               /\ evaluated.returned[i].risk_level \in Int
               /\ evaluated.returned[i].temperature \in Int
               /\ evaluated.returned[i].humidity \in Int

\* C19: the value of a record is the value of the first alias, in the order
\* risk_level, vri, risk, value, ma_prob_mean, ma_prob_max, that the record
\* has, whatever that value is (0 included); it is 0 when the record has no
\* alias.
FirstPresentAliasWins ==
    Called("riskValue")
      => LET present == {k \in DOMAIN RiskAliases :
                            evaluated.arg[RiskAliases[k]] # Absent}
             first == CHOOSE k \in present : \A j \in present : k <= j
         IN  evaluated.returned =
                IF present = {} THEN 0 ELSE evaluated.arg[RiskAliases[first]].n

SpainDateDone == last.op = "spainDate" /\ last.pc = "done"

\* C20: when the fetch of the municipality payload fails, the single-date
\* loader of Spain ends with the Mapbox GL map removed (mbMap null), the
\* Leaflet map mounted (map non-null) and the error message in the stats
\* panel, and it has attempted the observation overlay when the
\* configuration names an observations file.
FetchFailureEndsDegraded ==
    SpainDateDone /\ last.failure = "fetch"
      => /\ mapManager.mbMap = NoId
         /\ mapManager.map # NoId
         /\ mapManager.map \in DOMAIN leafletMaps
         /\ mapStats.kind = "error"
         /\ env.observationsUrl => last.attempted

\* The date selected last, once every selection was made.
LastSelected == RangeLabel(SelectedDay(MaxSelections))

AllSettled ==
    /\ nStarted = MaxSelections + 1
    /\ calls = <<>>
    /\ \A id \in DOMAIN mapboxMaps : mapboxMaps[id].loaded

\* The dates of the risk layers on the mounted map.
RenderedRanges ==
    IF mapManager.mbMap # NoId
    THEN {mapboxMaps[mapManager.mbMap].onLoad.range}
    ELSE {l.data.of : l \in Attached("georaster")}

\* C21: after two date selections d1 then d2 for one region, once every
\* request has settled, a stats panel that names a date names d2, and when
\* it shows a summary the rendered risk layer is that of d2, whatever the
\* order of the responses.
LastSelectionShown ==
    AllSettled
      => /\ mapStats.range \in {NoRange, LastSelected}
         /\ mapStats.kind = "stats" => RenderedRanges = {LastSelected}

\* C22: at most one native map instance that was not removed exists, of
\* either backend, after any sequence of loads.
OneNativeMapInstance ==
    Cardinality(DOMAIN leafletMaps) + Cardinality(DOMAIN mapboxMaps) <= 1

\* C23: every entry of mapManager.layers that is not null refers to a layer
\* of the mounted map instance: a Leaflet layer only while the Leaflet map
\* it was made for is mounted, a Mapbox collection only while a Mapbox map
\* is, never a layer of an instance that was removed.
RegistryOfMountedMap ==
    \A k \in LayerKeys :
        /\ mapManager.layers[k].kind = "layer" => mapManager.map # NoId
        /\ mapManager.layers[k].kind = "data" => mapManager.mbMap # NoId

\* The requests a range loader has issued so far: Promise.allSettled is
\* handed the fetch of every date (app.js 471-476); the loop of the
\* Barcelona loader issues the fetch of date i when it reaches it (710-712).
Issued(call) == IF call.op = "spain" THEN Len(call.dates) ELSE call.i

RangeLoaders == {"spain", "barcelona"}

\* C24: in both range loaders every request of the batch is issued before a
\* response is awaited, and a request that fails keeps no other request of
\* the batch from being issued and from settling.
BatchIssuedAtOnce ==
    /\ \A i \in DOMAIN calls :
          calls[i].op \in RangeLoaders => Issued(calls[i]) = Len(calls[i].dates)
    /\ last.op \in RangeLoaders /\ last.pc = "done"
          => LET settled == IF last.op = "spain" THEN last.responses
                            ELSE last.outcomes
             IN  (\E k \in DOMAIN settled : settled[k] # "ok")
                    => Len(settled) = Len(last.dates)

\* C25: in both raster paths a pixel that equals the no-data sentinel of its
\* grid, the sentinel written by the averaging included, gets no colour,
\* whatever the sentinel is.
SentinelPixelTransparent ==
    grids # <<>> /\ averaged # NullRaster =>
        /\ \A p \in Positions :
              averaged.values[p[1]][p[2]][p[3]] = SentinelOf(grids[1])
                 => bcnPixelColor(averaged.values[p[1]][p[2]][p[3]]) = "null"
        /\ \A p \in Positions :
              LET pixelValue == grids[1].values[p[1]][p[2]][p[3]]
              IN  grids[1].noDataValue # Undefined /\ pixelValue = grids[1].noDataValue
                     => gridPixelColor(pixelValue, grids[1].noDataValue) = "null"

\* C26: a day of a Spain range load that answers 2xx with a body that cannot
\* be parsed is skipped: when another day of the range was read, the load
\* does not end in the catch and the panel does not show the error.
MalformedDaySkipped ==
    last.op = "spain" /\ last.pc = "done" /\ last.allRows # <<>>
        => ~last.aborted /\ mapStats.kind # "error"

FiniteCoordinates(feature) ==
    /\ feature.coordinates # Absent
    /\ isFinite(feature.coordinates.lon)
    /\ isFinite(feature.coordinates.lat)

Tried(way) == \E k \in DOMAIN evaluated.returned.tried : evaluated.returned.tried[k] = way

\* The three ways of reading a gzip-flagged body are tried in order, each
\* only when the ones before it gave no text.
GzipOrder ==
    Called("getCSVText") /\ evaluated.arg.response.gzip
        => LET response == evaluated.arg.response
               tried == evaluated.returned.tried
               Rank(way) == CASE way = "stream" -> 1 [] way = "pako" -> 2 [] OTHER -> 3
           IN  /\ response.stream # "unavailable" => tried[1] = "stream"
               /\ \A j, k \in DOMAIN tried : j < k => Rank(tried[j]) < Rank(tried[k])
               /\ Tried("pako") => response.stream # "text"
               /\ Tried("plain") => /\ response.stream # "text"
                                    /\ ~(response.buffer = "read" /\ response.pako = "text")

\* C28: a gzip-flagged CSV is read by the streaming decompressor first, by
\* pako only when streaming is unavailable or failed, as plain text only when
\* both failed; when all three fail, loadCSV returns the 12-point synthetic
\* series and caches nothing for the URL.
GzipFallbackChain ==
    /\ GzipOrder
    /\ /\ Called("getCSVText") /\ evaluated.arg.response.gzip
       /\ evaluated.arg.response.stream = "failed"
       /\ evaluated.arg.response.buffer = "failed" \/ evaluated.arg.response.pako = "failed"
       /\ evaluated.arg.response.plain = "failed"
       => /\ Len(evaluated.returned.data) = 12
          /\ evaluated.arg.url \notin DOMAIN cache

\* C29: a Spain load with the municipalities model that finds no vector-tile
\* renderer goes on as a raster grid load: when it has read the day's rows,
\* the Leaflet map is mounted and the grid loader runs for the date or has
\* put its layer on the map.
GridWhenNoVectorTiles ==
    /\ SpainDateDone /\ ~last.aborted /\ last.failure = "none"
    /\ ~env.mapboxgl
    => /\ mapManager.map # NoId
       /\ \/ \E i \in DOMAIN calls :
                calls[i].op = "spainGrid" /\ calls[i].date = last.date
          \/ mapManager.layers.geotiff # NoLayer

StatsLoading == mapStats.kind \in {"loading", "loadingRegion"}

LoadingResolvedByLoadEvent ==
    /\ last.op = "mapboxLoad"
    /\ mapStats.kind = "stats"
    /\ nStarted > MaxLiveSelections

\* C30: a load writes the loading message before anything else, and when
\* every fetch settles and the 'load' event of the mounted Mapbox map fires,
\* the panel leaves the loading message for a summary or a message.
LoadingEventuallyReplaced ==
    /\ [][nStarted' # nStarted => StatsLoading' \/ last'.pc = "done"]_vars
    /\ StatsLoading ~> ~StatsLoading

SpainGridDone == last.op = "spainGrid" /\ last.pc = "done"

IsPrefix(s, t) == Len(s) <= Len(t) /\ SubSeq(t, 1, Len(s)) = s

GridGaveUpAfterAll ==
    /\ SpainGridDone /\ ~last.aborted
    /\ mapStats.kind = "error"
    /\ \E k \in DOMAIN last.outcomes : last.outcomes[k] = "undecodable"

\* C31: the 1km grid loader requests its candidate files in the order of
\* the list, requests none after the first that was fetched and decoded,
\* and gives up with the error, no raster layer added, only when every
\* candidate was requested and failed.
CandidatesInPriorityOrder ==
    /\ [][SpainGridDone' /\ last'.outcomes[Len(last'.outcomes)] # "decoded"
            => mapManager'.layers = mapManager.layers]_vars
    /\ [] /\ \A i \in DOMAIN calls :
                calls[i].op = "spainGrid"
                   => /\ IsPrefix(calls[i].tried, CandidatePatterns)
                      /\ Len(calls[i].tried) = Len(calls[i].outcomes) + 1
                      /\ \A k \in DOMAIN calls[i].outcomes :
                            calls[i].outcomes[k] # "decoded"
          /\ SpainGridDone
                => /\ IsPrefix(last.tried, CandidatePatterns)
                   /\ Len(last.tried) = Len(last.outcomes)
                   /\ \A k \in DOMAIN last.outcomes :
                         last.outcomes[k] = "decoded" => k = Len(last.outcomes)
                   /\ last.outcomes[Len(last.outcomes)] # "decoded"
                         => /\ Len(last.tried) = Len(CandidatePatterns)
                            /\ mapStats.kind = "error"

\* C32: when a GeoTIFF was fetched and parseGeoraster is missing, the raster
\* load ends there with the exception passed to its caller: no other
\* candidate is requested and the outcome is not that of a missing file.
MissingDecoderFailsLoudly ==
    /\ last.op = "spainGrid"
    /\ last.outcomes # <<>>
    /\ last.outcomes[Len(last.outcomes)] = "no decoder"
    => /\ last.pc = "done" /\ last.aborted
       /\ Len(last.tried) = Len(last.outcomes)

\* C33: every scalar passed to the colour scale, for a municipality or for
\* a pixel, lies between 0 and 1; none is negative.
ScaledWithinUnitInterval ==
    Called("matchExpression") \/ Called("pixelScaled")
        => \A k \in DOMAIN evaluated.returned :
              /\ 0 <= evaluated.returned[k].scaled.num
              /\ evaluated.returned[k].scaled.num <= evaluated.returned[k].scaled.den

\* C34: averageGeorasters returns null for an empty list and for a first
\* grid without values, with an empty first band or with a width or height
\* of zero; otherwise its values have the first grid's bands, height and
\* width, and its width, height and sentinel are the first grid's.
NullOrShapedLikeFirst ==
    IF grids = <<>> THEN averaged = NullRaster
    ELSE LET base == grids[1]
             malformed == \/ base.values = <<>>
                          \/ base.values[1] = <<>>
                          \/ base.width = 0 \/ base.height = 0
         IN  IF malformed THEN averaged = NullRaster
             ELSE /\ averaged # NullRaster
                  /\ Len(averaged.values) = Len(base.values)
                  /\ \A b \in DOMAIN averaged.values :
                        /\ Len(averaged.values[b]) = base.height
                        /\ \A y \in DOMAIN averaged.values[b] :
                              Len(averaged.values[b][y]) = base.width
                  /\ averaged.width = base.width
                  /\ averaged.height = base.height
                  /\ averaged.noDataValue = base.noDataValue

\* A Barcelona continuation that ran up to layer.addTo(mapManager.map)
\* (app.js 756): it had a raster to show and the raster class.
BcnReachedAdd ==
    /\ nStarted' = nStarted
    /\ last'.op = "barcelona" /\ last'.pc = "done"
    /\ last'.georasters # <<>>
    /\ env.GeoRasterLayer
    /\ last'.outcomes[Len(last'.outcomes)] \notin {"rejected", "undecodable"}

\* The continuation of loadRegion after its awaited loadGeoJSON, which
\* calls addGeoJSONLayer (mapManager.js 155-156).
RegionReachedAdd ==
    /\ nStarted' = nStarted
    /\ \E i \in DOMAIN calls :
          /\ At(i, "loadRegion", "geojson")
          /\ last' = [calls[i] EXCEPT !.pc = last'.pc]

\* C35: when a continuation of loadBarcelonaMosquitoAlertData or of
\* loadRegion reaches the statement that adds its layer, mapManager.map is
\* not null, is a map that was not removed, and is the map that was mounted
\* when the load started.
LayerAddedToMountedMap ==
    [][BcnReachedAdd \/ RegionReachedAdd =>
          /\ mapManager.map # NoId
          /\ mapManager.map \in DOMAIN leafletMaps
          /\ mapManager.map = last'.mounted]_vars

\* The value a successful load of the URL parses.
RealData(url) ==
    IF url[1] = "csv" THEN {parseCSV("rows"), parseCSV("empty")}
    ELSE IF url[1] = "geojson" THEN {GeoJSONOf(url[2])}
    ELSE {GeoTIFFOf(url[2])}

\* The value a failed load returns.
Fallback(url) ==
    IF url[1] = "csv" THEN {generateSampleCSVData(random) : random \in Randoms}
    ELSE IF url[1] = "geojson" THEN {SampleGeoJSON}
    ELSE {NoData}

\* A load has failed and left the entries of other URLs in the cache.
FailedLoadBesideCached ==
    /\ Called("load") /\ evaluated.arg.outcome \in Failures
    /\ evaluated.arg.url \notin DOMAIN cache
    /\ cache # <<>>

\* C36: a load that fails returns the synthetic series, the sample
\* FeatureCollection or null and leaves the cache as it was; no such value
\* is ever an entry of the cache; a call for a URL that is not cached
\* fetches, and when the fetch succeeds the call returns the parsed data
\* and the cache holds it under the URL.
FailedLoadLeavesCache ==
    /\ [][/\ evaluated'.fn = "load" /\ evaluated'.arg.outcome \in Failures
             => /\ cache' = cache
                /\ evaluated'.returned \in Fallback(evaluated'.arg.url)
          /\ evaluated'.fn = "load" /\ evaluated'.arg.url \notin DOMAIN cache
             => evaluated'.arg.outcome # "cached"
          /\ evaluated'.fn = "load" /\ evaluated'.arg.outcome \notin Failures
                /\ ~(evaluated'.arg.url[1] = "geotiff" /\ ~env.parseGeoraster)
             => /\ evaluated'.arg.url \in DOMAIN cache'
                /\ cache'[evaluated'.arg.url] = evaluated'.returned
                /\ evaluated'.returned \in RealData(evaluated'.arg.url)]_vars
    /\ [](\A url \in DOMAIN cache : cache[url] \in RealData(url))

\* A chart is shown that a later call drew while an earlier call of
\* createRiskChart is still waiting for its data, and it is not the first
\* chart that was made.
ChartDrawnOutOfOrder ==
    /\ visualization.live # {}
    /\ visualization.made >= 2
    /\ \E i \in DOMAIN visualization.pending :
          visualization.pending[i].n < visualization.by

\* C37: after any interleaving of createRiskChart, createBarChart and
\* destroy, with the data of the createRiskChart calls arriving in any
\* order, at most one Chart instance was not destroyed, and it is the one
\* visualization.chart refers to.
OneLiveChart ==
    /\ Cardinality(visualization.live) <= 1
    /\ \A c \in visualization.live : c = visualization.chart

\* The orders a list of n grids can be passed in.
Orders(n) == {p \in [1..n -> 1..n] : \A j, k \in 1..n : p[j] = p[k] => j = k}

Reordered(p) == [k \in DOMAIN grids |-> grids[p[k]]]

\* The grids have the dimensions of the first, bands, rows and columns,
\* and its sentinel.
SameDimensions ==
    \A k \in DOMAIN grids :
        /\ Len(grids[k].values) = Len(grids[1].values)
        /\ grids[k].width = grids[1].width
        /\ grids[k].height = grids[1].height
        /\ grids[k].noDataValue = grids[1].noDataValue

====
